---------------------------- MODULE Spec2Model ----------------------------
(***************************************************************************)
(* ConQuerX: the Wikipedia page cache (utils/cache.py), the retry helper   *)
(* (utils/retry.py), the validators (utils/validation.py), the four stages *)
(* (pipeline/) and main, as state machines.                                *)
(*                                                                         *)
(* The specifications share the module's variables:                        *)
(*   CacheSpec     arbitrary get/set/clear calls on one WikipediaCache     *)
(*   RetrySpec     one call of retry_with_backoff                          *)
(*   QuizSpec      one run of generate_quiz                                *)
(*   EvalSpec      one run of main with --step eval or all, evaluate step  *)
(*                 by step                                                 *)
(*   StageSpec     one run of seed_questions or of extract_concepts        *)
(*   MainSpec      one run of main, each stage returning or raising        *)
(*   ValidateSpec  one call of a validator                                 *)
(*   PipelineSpec  one run of main with --step all, stage by stage         *)
(* Each leaves the variables of the others at their initial values.        *)
(***************************************************************************)
EXTENDS Integers, Sequences, FiniteSets, TLC

(***************************************************************************)
(* Values                                                                  *)
(***************************************************************************)

\* Python's None, as a get() result; no page content equals it.
None == "<None>"

\* Concept names used as cache keys (exact strings).
Concepts == {"thermal energy", "Thermal energy"}

\* Page texts the encyclopedia can return.  "" is the text of a page that
\* does not exist (the client returns an empty text, it does not raise).
Contents == {"", "text-a", "text-b"}

\* Page ids, already converted with str().
PageIds == {"-1", "1001"}

(***************************************************************************)
(* Text                                                                    *)
(***************************************************************************)

\* Text that the code inspects character by character is a sequence of
\* one-character strings.
Whitespace == { " ", "\t", "\n" }

LowerLetters ==
    { "a", "b", "c", "d", "e", "f", "g", "h", "i", "j", "k", "l", "m",
      "n", "o", "p", "q", "r", "s", "t", "u", "v", "w", "x", "y", "z" }

\* str.lower() on the capitals that occur in the texts below.
lower_char(c) ==
    CASE c = "A" -> "a" [] c = "L" -> "l" [] c = "M" -> "m" [] c = "Q" -> "q"
      [] c = "R" -> "r" [] c = "D" -> "d" [] OTHER -> c

lower(s) == [ i \in 1..Len(s) |-> lower_char(s[i]) ]

\* str.replace(old, new) for one-character old and new.
replace(s, old, new) == [ i \in 1..Len(s) |-> IF s[i] = old THEN new ELSE s[i] ]

\* str.strip().
strip(s) ==
    LET inked == { i \in 1..Len(s) : s[i] \notin Whitespace }
    IN  IF inked = {} THEN << >>
        ELSE SubSeq(s, CHOOSE i \in inked : \A j \in inked : i <= j,
                       CHOOSE i \in inked : \A j \in inked : i >= j)

\* len(s.split()): the number of whitespace-separated words.
word_count(s) ==
    Cardinality({ i \in 1..Len(s) :
                    /\ s[i] \notin Whitespace
                    /\ (i = 1 \/ s[i - 1] \in Whitespace) })

\* str.startswith(prefix).
startswith(s, prefix) ==
    Len(s) >= Len(prefix) /\ SubSeq(s, 1, Len(prefix)) = prefix

\* `sub in s`.
contains(s, sub) ==
    \E i \in 1..(Len(s) - Len(sub) + 1) : SubSeq(s, i, i + Len(sub) - 1) = sub

(***************************************************************************)
(* json.dump / json.load of a cache entry.  A file is the sequence of the  *)
(* tokens written; a write that fails part-way leaves a proper prefix.     *)
(***************************************************************************)

json_dump(data) ==
    << "{", "concept", data.concept,
            "page_id", data.page_id,
            "content", data.content, "}" >>

\* A text parses iff it is "{" key value ... "}"; the result is the dict.
json_wellformed(text) ==
    /\ Len(text) >= 2
    /\ Len(text) % 2 = 0
    /\ text[1] = "{"
    /\ text[Len(text)] = "}"

json_load(text) ==
    LET n == (Len(text) - 2) \div 2
        keys == { text[2 * i] : i \in 1..n }
    IN  [ k \in keys |->
            LET i == CHOOSE j \in 1..n :
                       /\ text[2 * j] = k
                       /\ \A l \in (j + 1)..n : text[2 * l] # k
            IN  text[2 * i + 1] ]

\* What a set() interrupted after `written` tokens leaves in the file.
json_dump_partial(data, written) == SubSeq(json_dump(data), 1, written)

DumpLen == Len(json_dump([concept |-> "", page_id |-> "", content |-> ""]))

(***************************************************************************)
(* WikipediaCache                                                          *)
(***************************************************************************)

\* MD5 hex digest of the concept's bytes: one file name per exact string.
\* Distinct strings of the modelled set have distinct digests.
concept_hash(concept) == "md5(" \o concept \o ")"

\* A key that ignores the concept's case.
get_cache_path_lower(concept) ==
    ".cache/wikipedia/"
        \o concept_hash(IF concept = "Thermal energy" THEN "thermal energy"
                                                       ELSE concept)
        \o ".json"

get_cache_path(concept) == ".cache/wikipedia/" \o concept_hash(concept) \o ".json"

CachePaths == { get_cache_path(c) : c \in Concepts }

\* The entry some earlier writer left without a "content" field.
ForeignEntry(concept) == << "{", "concept", concept, "}" >>

\* The most tokens a failing write leaves behind.
MaxWritten == 1

\* Every text a cache file can hold.
FileTexts ==
    UNION { { json_dump_partial([concept |-> c, page_id |-> p, content |-> x], n)
                : n \in (0..MaxWritten) \cup {DumpLen} }
            : <<c, p, x>> \in Concepts \X PageIds \X Contents }
    \cup { ForeignEntry(c) : c \in Concepts }

VARIABLES
    files,      \* the cache directory: path -> text, for the files that exist
    lastSet,    \* history: concept -> content of the last set() since clear()
    ioFailed,   \* history: some file operation has failed, or a file is foreign
    call,       \* the last WikipediaCache call and what it returned
    retry,      \* retry_with_backoff: its arguments, loop variable and position
    events,     \* retry_with_backoff: calls, log records, sleeps, in order
    quiz,       \* generate_quiz: position, loop variables, index, results
    step,       \* generate_quiz: what the last pass of the concept loop did
    fetched,    \* history: the concepts a page fetch was issued for in this run
    evaluation, \* evaluate: inputs, position, loop variables, score maps, log
    stage,      \* seed_questions / extract_concepts: position, items, output, log
    main,       \* main: arguments, position, stages started and completed, result
    validation, \* one call of a validator: argument, result, warning
    artifacts   \* a run with --step all: the artifacts on disk and the position

cacheVars == <<files, lastSet, ioFailed, call>>

retryVars == <<retry, events>>

quizVars == <<quiz, step, fetched>>

pipelineVars == <<evaluation, stage, main, validation, artifacts>>

vars == <<files, lastSet, ioFailed, call, retry, events, quiz, step, fetched,
          evaluation, stage, main, validation, artifacts>>


NoCall ==
    [ op |-> "none", concept |-> "", ret |-> None, raised |-> FALSE,
      warned |-> FALSE, count |-> 0, present |-> 0, fault |-> "ok" ]

EmptyDir == [ p \in {} |-> << >> ]

\* The cache when no WikipediaCache is in use.
CacheIdle ==
    /\ files = EmptyDir
    /\ lastSet = [ c \in Concepts |-> None ]
    /\ ioFailed = FALSE
    /\ call = NoCall

\* The quiz stage when it is not running.
\* INDEX_DIR: whether it exists, and the question whose documents the index
\* persisted there was built from (0: an index left by an earlier run).
NoIndex == [exists |-> FALSE, built_for |-> 0]
OldIndex == [exists |-> TRUE, built_for |-> 0]

NoStep ==
    [ concept |-> "", got |-> None, hit |-> FALSE, fetched |-> "no",
      set |-> "no", set_warned |-> FALSE, set_raised |-> FALSE,
      read_fault |-> "ok", raised |-> FALSE, warned |-> FALSE, doc |-> FALSE,
      order |-> << >> ]

QuizIdle ==
    /\ quiz = [ pc |-> "idle", pages |-> << >>, has_input |-> FALSE, nq |-> 0,
                qi |-> 0, ci |-> 0, wiki_docs |-> << >>, index |-> NoIndex,
                results |-> << >>, written |-> FALSE, exc |-> "" ]
    /\ step = NoStep
    /\ fetched = {}

\* The evaluation stage when it is not running.
NoEval ==
                 [ pc |-> "idle", wiki |-> "ok", quizzes |-> "ok",
                   has_quiz |-> FALSE, quiz_lists |-> << >>, qi |-> 0,
                   attempt |-> 0, calls |-> 0, error |-> "",
                   metrics |-> << >>, llm_score |-> << >>, scored |-> FALSE,
                   log |-> << >>, written |-> FALSE, exc |-> "" ]

EvalIdle == evaluation = NoEval

\* The seeding and concept stages when they are not running.
NoStage ==
            [ name |-> "idle", pc |-> "idle", input |-> "ok",
              items |-> << >>, level |-> 0, i |-> 0, out |-> << >>,
              log |-> << >>, written |-> FALSE, exc |-> "" ]

StageIdle == stage = NoStage

\* main when it is not running.
NoMain ==
           [ pc |-> "idle", step |-> "", clear_cache |-> FALSE,
             started |-> << >>, skipped |-> << >>, completed |-> << >>,
             log |-> << >>,
             ret |-> -1, exc |-> "" ]

MainIdle == main = NoMain

\* No validator call is being made.
NoValidation ==
    [ fn |-> "none", arg |-> << >>, min_count |-> 0, pc |-> "idle",
      ret |-> << >>, warned |-> FALSE ]

ValidateIdle == validation = NoValidation

\* The artifacts of the four stages, and what the working directory can hold
\* under each name: nothing, a file of an earlier run, a file cut short by a
\* failed write, or the data written in this run.
ArtifactNames ==
    { "questions.json", "concepts.json", "quiz_concept_wiki.json", "wiki.json",
      "wiki_evaluation.json" }
AbsentFile == [ state |-> "absent", data |-> << >> ]
OldFile == [ state |-> "old", data |-> << >> ]
TruncatedFile == [ state |-> "truncated", data |-> << >> ]
WrittenFile(data) == [ state |-> "written", data |-> data ]

\* The artifacts when no run with --step all is followed.
NoArtifacts ==
    [ pc |-> "idle", i |-> 0, questions |-> << >>, concepts |-> << >>,
      quiz |-> << >>,
      summary |-> << >>, wiki |-> << >>, llm_score |-> << >>,
      carried |-> << >>, ret |-> -1,
      disk |-> [ n \in ArtifactNames |-> AbsentFile ],
      cache |-> {}, index |-> FALSE, failed |-> "" ]

ArtifactsIdle == artifacts = NoArtifacts

PipelineIdle ==
    EvalIdle /\ StageIdle /\ MainIdle /\ ValidateIdle /\ ArtifactsIdle

\* Read faults of get(): open() or read() raising OSError.
ReadFaults == {"ok", "read_error"}

\* get(), lines 70-73, the body of the try: the exception raised, if any,
\* and the value returned otherwise.
get_try(fs, cache_path, fault) ==
    IF fault = "read_error"
      THEN [exc |-> "OSError", value |-> None]
    ELSE IF ~json_wellformed(fs[cache_path])
      THEN [exc |-> "JSONDecodeError", value |-> None]
    ELSE IF "content" \notin DOMAIN json_load(fs[cache_path])
      THEN [exc |-> "KeyError", value |-> None]
    ELSE [exc |-> "none", value |-> json_load(fs[cache_path])["content"]]

\* get(), lines 64-76: the value returned, whether a warning was logged and
\* whether the call raised.
get_result_unguarded(fs, concept, fault) ==
    LET cache_path == get_cache_path(concept)
    IN  IF cache_path \notin DOMAIN fs
          THEN [ret |-> None, warned |-> FALSE, raised |-> FALSE]
          ELSE LET r == get_try(fs, cache_path, fault)
               IN  [ret |-> r.value, warned |-> FALSE, raised |-> r.exc # "none"]

get_result(fs, concept, fault) ==
    LET cache_path == get_cache_path(concept)
    IN  IF cache_path \notin DOMAIN fs
          THEN [ret |-> None, warned |-> FALSE, raised |-> FALSE]
          ELSE LET r == get_try(fs, cache_path, fault)
               IN  IF r.exc # "none"
                     THEN [ret |-> None, warned |-> TRUE, raised |-> FALSE]
                     ELSE [ret |-> r.value, warned |-> FALSE, raised |-> FALSE]

\* Write faults of set(): open(path, "w") raising (nothing touched), or the
\* write raising after open() truncated the file and `written` tokens went out
\* (at most MaxWritten of them: every proper prefix is equally unparsable).
WriteFaults ==
    {[kind |-> "ok", written |-> DumpLen], [kind |-> "open_error", written |-> 0]}
    \cup { [kind |-> "write_error", written |-> n] : n \in 0..MaxWritten }

WriteFile(fs, path, text) ==
    [ p \in DOMAIN fs \cup {path} |-> IF p = path THEN text ELSE fs[p] ]

\* set(), lines 90-97, the body of the try: the exception raised, if any,
\* and the directory afterwards.
set_try(fs, cache_path, concept, content, page_id, fault) ==
    LET data == [concept |-> concept, page_id |-> page_id, content |-> content]
    IN  IF fault.kind = "open_error"
          THEN [exc |-> "OSError", files |-> fs]
          ELSE [exc |-> IF fault.kind = "ok" THEN "none" ELSE "OSError",
                files |-> WriteFile(fs, cache_path,
                                    json_dump_partial(data, fault.written))]

\* set(), lines 87-99: the directory afterwards, whether a warning was
\* logged and whether the call raised.
set_result_unguarded(fs, concept, content, page_id, fault) ==
    LET r == set_try(fs, get_cache_path(concept), concept, content, page_id, fault)
    IN  [files |-> r.files, warned |-> FALSE, raised |-> r.exc # "none"]

set_result(fs, concept, content, page_id, fault) ==
    LET r == set_try(fs, get_cache_path(concept), concept, content, page_id, fault)
    IN  [files |-> r.files, warned |-> r.exc # "none", raised |-> FALSE]

\* clear(), lines 108-117: `failing` are the files whose unlink() raises.
clear_files(fs, failing) == [ p \in DOMAIN fs \cap failing |-> fs[p] ]

clear_count_all(fs, failing) == Cardinality(DOMAIN fs)
clear_count(fs, failing) == Cardinality(DOMAIN fs \ failing)

(***************************************************************************)
(* retry_with_backoff                                                      *)
(***************************************************************************)

\* Largest max_retries tried, and most failures of the operation before it
\* succeeds (MaxFails >= MaxRetriesArg: an operation that fails every time).
MaxRetriesArg == 4
MaxFails == 4

\* Durations are whole ticks; a second has TicksPerSecond of them.
TicksPerSecond == 2
MaxBaseDelay == 3
MaxMaxDelay == 5

Min(a, b) == IF a <= b THEN a ELSE b

\* The arguments of one call.  func fails (raises an Exception) on its first
\* `fails` invocations and returns on the next.
RetryArgs ==
    [ max_retries : 0..MaxRetriesArg,
      base_delay  : 0..MaxBaseDelay,
      max_delay   : 0..MaxMaxDelay,
      jitter      : BOOLEAN,
      fails       : 0..MaxFails ]

NoResult == [kind |-> "none", type |-> "", from |-> -1]

RetryIdle ==
    /\ retry = [ pc |-> "idle", args |-> [ max_retries |-> 0, base_delay |-> 0,
                                          max_delay |-> 0, jitter |-> FALSE,
                                          fails |-> 0 ],
                 attempt |-> 0, result |-> NoResult ]
    /\ events = << >>

Event(ev, attempt, res, delay, u) ==
    [ev |-> ev, attempt |-> attempt, res |-> res, delay |-> delay, u |-> u]

Calls == SelectSeq(events, LAMBDA e : e.ev = "call")
Sleeps == SelectSeq(events, LAMBDA e : e.ev = "sleep")
Logs == SelectSeq(events, LAMBDA e : e.ev = "log")

\* func(): the operation's outcome on its n-th invocation (n = 1, 2, ...).
func(args, n) == IF n <= args.fails THEN "error" ELSE "ok"

\* random.uniform(0, 1), line 54: any value from 0 to 1 second.
Uniform01 == 0..TicksPerSecond

\* Line 50: min(base_delay * (2 ** attempt), max_delay).
exponential_delay_halving(args, attempt) ==
    Min(args.base_delay \div (2 ^ attempt), args.max_delay)
exponential_delay(args, attempt) ==
    Min(args.base_delay * (2 ^ attempt), args.max_delay)

\* Lines 50-54: the delay slept, u being the jitter drawn.
backoff_delay_capped(args, attempt, u) ==
    Min(args.base_delay * (2 ^ attempt) + u, args.max_delay)
backoff_delay(args, attempt, u) ==
    exponential_delay(args, attempt) + u

\* Line 45: whether this was the last attempt.
is_last_attempt_early(args, attempt) == attempt >= args.max_retries - 2
is_last_attempt(args, attempt) == attempt = args.max_retries - 1

\* Lines 45-47: the bare raise propagates the exception func() just raised.
reraise_wrapped(attempt) == [kind |-> "raised", type |-> "RuntimeError", from |-> -1]
reraise(attempt) == [kind |-> "raised", type |-> "Exception", from |-> attempt]

\* Lines 56-60: what the handler does between two attempts, in order.
backoff_events_sleep_first(attempt, delay, u) ==
    << Event("sleep", attempt, "", delay, u), Event("log", attempt, "", delay, u) >>
backoff_events(attempt, delay, u) ==
    << Event("log", attempt, "", delay, u), Event("sleep", attempt, "", delay, u) >>

RetryInit ==
    /\ CacheIdle
    /\ QuizIdle
    /\ PipelineIdle
    /\ \E args \in RetryArgs :
         retry = [pc |-> "loop", args |-> args, attempt |-> 0, result |-> NoResult]
    /\ events = << >>

\* Lines 41-43: one iteration's func() call; its return ends the call.
retry_attempt ==
    /\ retry.pc = "loop"
    /\ retry.attempt < retry.args.max_retries
    /\ LET res == func(retry.args, Len(Calls) + 1)
       IN  /\ events' = Append(events, Event("call", retry.attempt, res, 0, 0))
           /\ retry' = IF res = "ok"
                         THEN [ retry EXCEPT !.pc = "returned",
                                  !.result = [kind |-> "returned", type |-> "",
                                              from |-> retry.attempt] ]
                         ELSE [ retry EXCEPT !.pc = "except" ]
    /\ UNCHANGED <<cacheVars, quizVars, pipelineVars>>

\* Lines 44-47: the last attempt failed; the bare raise re-raises its exception.
retry_raise ==
    /\ retry.pc = "except"
    /\ is_last_attempt(retry.args, retry.attempt)
    /\ events' = Append(events, Event("raise", retry.attempt, "", 0, 0))
    /\ retry' = [ retry EXCEPT !.pc = "raised",
                    !.result = reraise(retry.attempt) ]
    /\ UNCHANGED <<cacheVars, quizVars, pipelineVars>>

\* Lines 49-60: an earlier attempt failed; compute the delay, log, sleep, and go
\* on with the next attempt.
retry_backoff ==
    /\ retry.pc = "except"
    /\ ~is_last_attempt(retry.args, retry.attempt)
    /\ \E u \in Uniform01 :
         /\ ~retry.args.jitter => u = 0
         /\ events' = events \o backoff_events(retry.attempt,
                                 backoff_delay(retry.args, retry.attempt, u), u)
    /\ retry' = [ retry EXCEPT !.pc = "loop", !.attempt = retry.attempt + 1 ]
    /\ UNCHANGED <<cacheVars, quizVars, pipelineVars>>

\* Lines 62-63: the loop ended without returning or raising.
retry_exhausted ==
    /\ retry.pc = "loop"
    /\ retry.attempt >= retry.args.max_retries
    /\ events' = Append(events, Event("raise", retry.attempt, "", 0, 0))
    /\ retry' = [ retry EXCEPT !.pc = "raised",
                    !.result = [kind |-> "raised", type |-> "RuntimeError",
                                from |-> -1] ]
    /\ UNCHANGED <<cacheVars, quizVars, pipelineVars>>

RetryNext ==
    \/ retry_attempt
    \/ retry_raise
    \/ retry_backoff
    \/ retry_exhausted

RetrySpec == RetryInit /\ [][RetryNext]_vars

RetryDone == retry.pc \in {"returned", "raised"}

(***************************************************************************)
(* CacheSpec: any sequence of get / set / clear calls.                     *)
(***************************************************************************)

\* __init__, lines 33-35: mkdir(exist_ok=True) keeps whatever the directory
\* holds.  Each file there is a complete entry written by an earlier set()
\* for its concept, or an entry of a foreign writer.
InitialTexts(c) ==
    { json_dump([concept |-> c, page_id |-> p, content |-> x])
        : <<p, x>> \in PageIds \X Contents }
    \cup { ForeignEntry(c) }

InitialDirs ==
    UNION { { fs \in [ { get_cache_path(c) : c \in S } -> FileTexts ] :
                \A c \in S : fs[get_cache_path(c)] \in InitialTexts(c) }
            : S \in SUBSET Concepts }

\* The content an earlier run stored for c, if it stored one.
StoredContent(fs, c) ==
    IF \/ get_cache_path(c) \notin DOMAIN fs
       \/ "content" \notin DOMAIN json_load(fs[get_cache_path(c)])
      THEN None
      ELSE json_load(fs[get_cache_path(c)])["content"]

CacheInit ==
    /\ files \in InitialDirs
    /\ lastSet = [ c \in Concepts |-> StoredContent(files, c) ]
    /\ ioFailed = (\E p \in DOMAIN files :
                     "content" \notin DOMAIN json_load(files[p]))
    /\ call = NoCall
    /\ RetryIdle
    /\ QuizIdle
    /\ PipelineIdle

WikipediaCache_get ==
    \E concept \in Concepts, fault \in ReadFaults :
        LET r == get_result(files, concept, fault)
        IN  /\ fault = "read_error" => get_cache_path(concept) \in DOMAIN files
            /\ call' = [ NoCall EXCEPT !.op = "get", !.concept = concept,
                           !.ret = r.ret, !.warned = r.warned,
                           !.raised = r.raised, !.fault = fault ]
            /\ ioFailed' = (ioFailed \/ fault = "read_error")
            /\ UNCHANGED <<files, lastSet>>
            /\ UNCHANGED <<retryVars, quizVars, pipelineVars>>

WikipediaCache_set ==
    \E concept \in Concepts, content \in Contents, page_id \in PageIds,
       fault \in WriteFaults :
        LET r == set_result(files, concept, content, page_id, fault)
        IN  /\ files' = r.files
            /\ lastSet' = [ lastSet EXCEPT ![concept] = content ]
            /\ ioFailed' = (ioFailed \/ fault.kind # "ok")
            /\ call' = [ NoCall EXCEPT !.op = "set", !.concept = concept,
                           !.warned = r.warned, !.raised = r.raised,
                           !.fault = fault.kind ]
            /\ UNCHANGED <<retryVars, quizVars, pipelineVars>>

WikipediaCache_clear ==
    \E failing \in SUBSET (DOMAIN files) :
        /\ files' = clear_files(files, failing)
        /\ lastSet' = [ c \in Concepts |-> None ]
        /\ ioFailed' = (ioFailed \/ failing # {})
        /\ call' = [ NoCall EXCEPT !.op = "clear",
                       !.count = clear_count(files, failing),
                       !.warned = (failing # {}),
                       !.present = Cardinality(DOMAIN files) ]
        /\ UNCHANGED <<retryVars, quizVars, pipelineVars>>

CacheNext ==
    \/ WikipediaCache_get
    \/ WikipediaCache_set
    \/ WikipediaCache_clear

CacheSpec == CacheInit /\ [][CacheNext]_vars

(***************************************************************************)
(* generate_quiz                                                           *)
(***************************************************************************)

\* Questions of the area being processed and concepts of one question, at most.
MaxQuestions == 2
MaxConcepts == 2

\* What the encyclopedia holds for a concept: a page, or no page, for which the
\* client returns an empty text and the page id -1.
WikiPages == { [text |-> "text-a", pageid |-> "1001"], [text |-> "", pageid |-> "-1"] }

\* The cache directory at the start of a run: entries of earlier runs.
QuizInitialDirs ==
    { fs \in InitialDirs :
        \A p \in DOMAIN fs :
            /\ fs[p] # ForeignEntry(CHOOSE c \in Concepts : get_cache_path(c) = p)
            /\ json_load(fs[p])["content"] = "text-b"
            /\ json_load(fs[p])["page_id"] = "1001" }

\* The write faults tried in the stage: the failing write leaves an empty file.
QuizWriteFaults == { wf \in WriteFaults : wf.kind = "write_error" => wf.written = 0 }

\* Line 84, `if cached_content:`: None and the empty string are both false.
is_truthy(value) == value # None /\ value # ""

\* Quiz blocks of a model response.
QuizHeader == << "Q", "u", "i", "z", ":" >>
OptionsABC == << " ", "A", ".", " ", "B", ".", " ", "C", "." >>
GoodBlock == QuizHeader \o OptionsABC \o << " ", "D", "." >>
NoOptionD == QuizHeader \o OptionsABC
NoColon == << "Q", "u", "i", "z" >> \o OptionsABC \o << " ", "D", "." >>
NotAQuiz == << "H", "i" >> \o OptionsABC \o << " ", "D", "." >>

\* The content "" split at "[Quiz]": one empty section.
EmptyResponse == << << >> >>

\* The sections of response.message.content.split("[Quiz]").
QuizResponses ==
    { EmptyResponse,
      << << >>, << " " >> \o GoodBlock \o << " " >> >>,
      << << " " >>, NoOptionD \o << " " >>, << " " >> \o GoodBlock >>,
      << NotAQuiz, NoColon >> }

\* validate_quiz_format, utils/validation.py 97-125.
validate_quiz_format_header_only(quiz_text) == startswith(quiz_text, QuizHeader)
validate_quiz_format(quiz_text) ==
    /\ startswith(quiz_text, QuizHeader)
    /\ \A option \in { << "A", "." >>, << "B", "." >>, << "C", "." >>,
                       << "D", "." >> } :
          contains(quiz_text, option)

\* Lines 152-161: the sections kept as quizzes.
parse_quiz(sections) ==
    SelectSeq([ k \in 1..Len(sections) |-> strip(sections[k]) ],
        LAMBDA section :
          /\ section # << >>
          /\ startswith(section, << "Q", "u", "i", "z" >>)
          /\ validate_quiz_format(section))

\* Lines 158-161: a section that begins with "Quiz" and fails the format is
\* dropped with a warning.
quiz_dropped(sections) ==
    \E k \in 1..Len(sections) :
       /\ strip(sections[k]) # << >>
       /\ startswith(strip(sections[k]), << "Q", "u", "i", "z" >>)
       /\ ~validate_quiz_format(strip(sections[k]))

\* The quizzes kept from each response, and whether a section of it was
\* dropped.
ParsedResponses ==
    [ sections \in QuizResponses |->
        [ quiz |-> parse_quiz(sections), dropped |-> quiz_dropped(sections) ] ]

\* Lines 92-96: the pacing delay, then the request for the page.
fetch_unpaced == << "fetch" >>
paced_fetch == << "sleep", "fetch" >>

\* Lines 99-108: the page is cached, then its Document is added; when set()
\* raises, the except branch warns and no Document is added.
document_then_cache(set_raised) ==
    IF set_raised THEN << "doc", "set", "warn" >> ELSE << "doc", "set" >>
cache_then_document(set_raised) ==
    IF set_raised THEN << "set", "warn" >> ELSE << "set", "doc" >>

\* Lines 110-115: the index of INDEX_DIR when the directory exists, otherwise
\* one built from the documents of question qi and persisted there.
queried_index_rebuilt(index, qi) == [ exists |-> TRUE, built_for |-> qi ]
queried_index(index, qi) ==
    IF index.exists THEN index ELSE [ exists |-> TRUE, built_for |-> qi ]

\* Lines 104-108: the except branch of the fetch logs a warning and goes on to
\* the next concept of the question; nothing is added to wiki_docs.
fetch_except_abort(q) == [ q EXCEPT !.pc = "raised", !.exc = "Exception" ]
fetch_except(q) == [ q EXCEPT !.ci = q.ci + 1 ]

QuizInit ==
    /\ files \in QuizInitialDirs
    /\ lastSet = [ c \in Concepts |-> None ]
    /\ ioFailed = FALSE
    /\ call = NoCall
    /\ RetryIdle
    /\ \E pages \in [Concepts -> WikiPages], has_input \in BOOLEAN,
          nq \in 0..MaxQuestions, index \in {NoIndex, OldIndex} :
         quiz = [ pc |-> "start", pages |-> pages, has_input |-> has_input,
                  nq |-> nq, qi |-> 0, ci |-> 0, wiki_docs |-> << >>,
                  index |-> index, results |-> << >>, written |-> FALSE,
                  exc |-> "" ]
    /\ step = NoStep
    /\ fetched = {}
    /\ PipelineIdle

\* Lines 50-77: open concepts.json and enter the loops.
quiz_start ==
    /\ quiz.pc = "start"
    /\ quiz' = IF ~quiz.has_input
                 THEN [ quiz EXCEPT !.pc = "raised", !.exc = "FileNotFoundError" ]
               ELSE IF quiz.nq = 0
                 THEN [ quiz EXCEPT !.pc = "write" ]
               ELSE [ quiz EXCEPT !.pc = "concepts", !.qi = 1 ]
    /\ UNCHANGED <<cacheVars, retryVars, step, fetched, pipelineVars>>

\* Lines 80-108: one pass of `for concept in concepts`.
quiz_concept ==
    /\ quiz.pc = "concepts"
    /\ quiz.ci < MaxConcepts
    /\ \E concept \in Concepts, rf \in ReadFaults, fetch \in {"ok", "error"},
          wf \in QuizWriteFaults :
         LET g == get_result(files, concept, rf)
             page == quiz.pages[concept]
             s == set_result(files, concept, page.text, page.pageid, wf)
             base == [ NoStep EXCEPT !.concept = concept, !.got = g.ret,
                                     !.read_fault = rf ]
         IN  /\ rf = "read_error" => get_cache_path(concept) \in DOMAIN files
             /\ IF g.raised
                  THEN \* line 82 is outside the try: the stage ends
                    /\ fetch = "ok" /\ wf.kind = "ok"
                    /\ quiz' = [ quiz EXCEPT !.pc = "raised", !.exc = "Exception" ]
                    /\ step' = [ base EXCEPT !.raised = TRUE, !.order = << "get" >> ]
                    /\ UNCHANGED <<files, fetched>>
                ELSE IF is_truthy(g.ret)
                  THEN \* lines 86-88
                    /\ fetch = "ok" /\ wf.kind = "ok"
                    /\ quiz' = [ quiz EXCEPT !.ci = quiz.ci + 1,
                                   !.wiki_docs = Append(quiz.wiki_docs,
                                       [id |-> "auto", text |-> g.ret]) ]
                    /\ step' = [ base EXCEPT !.hit = TRUE, !.doc = TRUE,
                                   !.order = << "get", "doc" >> ]
                    /\ UNCHANGED <<files, fetched>>
                ELSE IF fetch = "error"
                  THEN \* lines 92-96 raise, lines 104-108
                    /\ wf.kind = "ok"
                    /\ quiz' = fetch_except(quiz)
                    /\ step' = [ base EXCEPT !.fetched = "error", !.warned = TRUE,
                                   !.order = << "get" >> \o paced_fetch \o << "warn" >> ]
                    /\ fetched' = fetched \cup {concept}
                    /\ UNCHANGED <<files>>
                ELSE \* lines 92-103, and 104-108 when set() raises
                    /\ files' = s.files
                    /\ fetched' = fetched \cup {concept}
                    /\ quiz' = IF s.raised THEN fetch_except(quiz)
                               ELSE [ quiz EXCEPT !.ci = quiz.ci + 1,
                                        !.wiki_docs = Append(quiz.wiki_docs,
                                            [id |-> page.pageid, text |-> page.text]) ]
                    /\ step' = [ base EXCEPT !.fetched = "ok", !.set = wf.kind,
                                   !.set_warned = s.warned, !.set_raised = s.raised,
                                   !.warned = s.raised, !.doc = ~s.raised,
                                   !.order = << "get" >> \o paced_fetch \o
                                               cache_then_document(s.raised) ]
    /\ UNCHANGED <<lastSet, ioFailed, call, retryVars, pipelineVars>>

\* Lines 110-165: the concepts of the question are done; load or build the
\* index, retrieve, ask for the summary and the quizzes, and record them.
quiz_question ==
    /\ quiz.pc = "concepts"
    /\ \E fault \in {"ok", "index_error", "chat_error"}, sections \in QuizResponses :
         LET queried == queried_index(quiz.index, quiz.qi)
         IN  IF fault = "index_error"
               THEN /\ sections = EmptyResponse
                    /\ quiz' = [ quiz EXCEPT !.pc = "raised", !.exc = "Exception" ]
                    /\ step' = NoStep
             ELSE IF fault = "chat_error"
               THEN /\ sections = EmptyResponse
                    /\ quiz' = [ quiz EXCEPT !.pc = "raised", !.exc = "Exception",
                                   !.index = queried ]
                    /\ step' = NoStep
             ELSE /\ step' = [ NoStep EXCEPT
                                !.warned = ParsedResponses[sections].dropped ]
                  /\ quiz' = [ quiz EXCEPT
                              !.index = queried,
                              !.results = Append(quiz.results,
                                  [ quiz |-> ParsedResponses[sections].quiz,
                                    wiki |-> queried.built_for ]),
                              !.wiki_docs = << >>,
                              !.ci = 0,
                              !.qi = IF quiz.qi < quiz.nq THEN quiz.qi + 1 ELSE quiz.qi,
                              !.pc = IF quiz.qi < quiz.nq THEN "concepts" ELSE "write" ]
    /\ UNCHANGED <<cacheVars, retryVars, fetched, pipelineVars>>

\* Lines 167-175: write quiz_concept_wiki.json and wiki.json.
quiz_write ==
    /\ quiz.pc = "write"
    /\ \E fault \in {"ok", "io_error"} :
         quiz' = IF fault = "ok"
                   THEN [ quiz EXCEPT !.pc = "done", !.written = TRUE ]
                   ELSE [ quiz EXCEPT !.pc = "raised", !.exc = "OSError" ]
    /\ UNCHANGED <<cacheVars, retryVars, step, fetched, pipelineVars>>

QuizNext ==
    \/ quiz_start
    \/ quiz_concept
    \/ quiz_question
    \/ quiz_write

QuizSpec == QuizInit /\ [][QuizNext]_vars

(***************************************************************************)
(* evaluate                                                                *)
(***************************************************************************)

\* config.py: the attempts evaluate gives to retry_with_backoff.
MAX_RETRIES == 3

\* Questions of the area being evaluated, at most.
MaxEvalQuestions == 3

EVALUATION_DIMENSIONS ==
    { "Educational Value", "Diversity", "Area Relevance",
      "Difficulty Appropriateness", "Comprehensiveness" }

\* A JSON value as json.loads returns it: an int, or a value of another type.
JInt(n) == [type |-> "int", v |-> n]
JStr == [type |-> "str", v |-> 0]

\* _create_score_dict, lines 33-43.
create_score_dict_zero(score) == [ dim \in EVALUATION_DIMENSIONS |-> JInt(0) ]
create_score_dict(score) == [ dim \in EVALUATION_DIMENSIONS |-> JInt(score) ]

NoMembers == [ k \in {} |-> JInt(0) ]

\* What a ```json fence of a response can hold: an object, another JSON value,
\* or text that is not JSON.
JsonBodies ==
    { [kind |-> "object", members |-> create_score_dict(4)],
      [kind |-> "object",
       members |-> [create_score_dict(4) EXCEPT !["Diversity"] = JInt(9)]],
      [kind |-> "object",
       members |-> [create_score_dict(4) EXCEPT !["Diversity"] = JStr]],
      [kind |-> "object",
       members |-> [ k \in EVALUATION_DIMENSIONS \cup {"Overall"} |-> JInt(4) ]],
      [kind |-> "object",
       members |-> [ k \in EVALUATION_DIMENSIONS \ {"Comprehensiveness"} |->
                       JInt(4) ]],
      [kind |-> "array", members |-> NoMembers],
      [kind |-> "malformed", members |-> NoMembers] }

NoBlock == [kind |-> "none", members |-> NoMembers]

\* Outcomes of LLM.chat: it raises, or returns a message whose content is the
\* text around an optional ```json fence.
EvalResponses ==
    { [raises |-> TRUE, exc |-> "Exception", text |-> "", block |-> NoBlock],
      [raises |-> TRUE, exc |-> "KeyboardInterrupt", text |-> "", block |-> NoBlock],
      [raises |-> FALSE, exc |-> "", text |-> "", block |-> NoBlock],
      [raises |-> FALSE, exc |-> "", text |-> "The quizzes are fine.",
       block |-> NoBlock] }
    \cup { [raises |-> FALSE, exc |-> "", text |-> "Scores:", block |-> b] :
             b \in JsonBodies }

EvalRaised(type) == [kind |-> "raised", type |-> type, scores |-> NoMembers]

\* evaluate_quiz, lines 122-157, given what LLM.chat does.
evaluate_quiz_unprojected(response) ==
    IF response.raises THEN EvalRaised(response.exc)
    ELSE IF response.block.kind # "object"
         \/ ~(EVALUATION_DIMENSIONS \subseteq DOMAIN response.block.members)
      THEN EvalRaised("Exception")
    ELSE [kind |-> "ok", type |-> "", scores |-> response.block.members]
evaluate_quiz(response) ==
    IF response.raises THEN EvalRaised(response.exc)
    ELSE IF response.text = "" /\ response.block.kind = "none"
      THEN EvalRaised("ValueError: Empty response from LLM")
    ELSE IF response.block.kind = "none"
      THEN EvalRaised("ValueError: No JSON found in response")
    ELSE IF response.block.kind = "malformed" THEN EvalRaised("JSONDecodeError")
    ELSE IF response.block.kind = "array" THEN EvalRaised("TypeError")
    ELSE IF ~(EVALUATION_DIMENSIONS \subseteq DOMAIN response.block.members)
      THEN EvalRaised("KeyError")
    ELSE [kind |-> "ok", type |-> "",
          scores |-> [ dim \in EVALUATION_DIMENSIONS |->
                         response.block.members[dim] ]]

\* `except Exception`, retry.py 44 and evaluation.py 165: KeyboardInterrupt
\* is not an Exception, every other exception of evaluate_quiz is.
is_caught_bare(type) == TRUE
is_caught(type) == type # "KeyboardInterrupt"

\* Line 107, `if not quiz_list:`.
skip_question_never(quiz_list) == FALSE
skip_question(quiz_list) == quiz_list = << >>

\* The arguments of the call of retry_with_backoff at lines 159-163.
EvalRetryArgs ==
    [ max_retries |-> MAX_RETRIES, base_delay |-> TicksPerSecond,
      max_delay |-> 60 * TicksPerSecond, jitter |-> TRUE, fails |-> 0 ]

LogRecord(level, msg) == [level |-> level, msg |-> msg]

WikiHint ==
    "wiki.json not found. Run quiz generation first (python main.py --step quiz)"
QuizHint ==
    "quiz_concept_wiki.json not found. Run quiz generation first (python main.py --step quiz)"

\* wiki.json and quiz_concept_wiki.json at the start of the stage.
InputStates == {"ok", "missing", "invalid"}

EvalInit ==
    /\ CacheIdle /\ RetryIdle /\ QuizIdle /\ StageIdle
    /\ ValidateIdle /\ ArtifactsIdle
    /\ \E step_arg \in {"eval", "all"} :
         main = [ NoMain EXCEPT !.pc = "try", !.step = step_arg,
                    !.log = << LogRecord("info", "banner") >> ]
    /\ \E wiki \in InputStates, quizzes \in InputStates, has_quiz \in BOOLEAN,
          nq \in 0..MaxEvalQuestions :
         \E quiz_lists \in [ 1..nq -> { << >>, << GoodBlock >> } ] :
            /\ (wiki # "ok" \/ quizzes # "ok") => ~has_quiz
            /\ ~has_quiz => nq = 0
            /\ evaluation = [ NoEval EXCEPT !.pc = "start", !.wiki = wiki,
                                !.quizzes = quizzes, !.has_quiz = has_quiz,
                                !.quiz_lists = quiz_lists ]

\* Lines 66-94: read the two inputs and enter the loops.
evaluate_start ==
    /\ evaluation.pc = "start"
    /\ main.pc = "stage" /\ main.started[Len(main.started)] = "eval"
    /\ LET e == evaluation
           log1 == Append(e.log,
                     LogRecord("info", "Reading Wikipedia summaries from wiki.json"))
           log2 == Append(log1,
                     LogRecord("info", "Reading quiz data from quiz_concept_wiki.json"))
       IN  evaluation' =
             IF e.wiki = "missing"
               THEN [ e EXCEPT !.pc = "raised", !.exc = "FileNotFoundError",
                        !.log = Append(log1, LogRecord("error", WikiHint)) ]
             ELSE IF e.wiki = "invalid"
               THEN [ e EXCEPT !.pc = "raised", !.exc = "JSONDecodeError",
                        !.log = Append(log1,
                            LogRecord("error", "Invalid JSON in wiki.json")) ]
             ELSE IF e.quizzes = "missing"
               THEN [ e EXCEPT !.pc = "raised", !.exc = "FileNotFoundError",
                        !.log = Append(log2, LogRecord("error", QuizHint)) ]
             ELSE IF e.quizzes = "invalid"
               THEN [ e EXCEPT !.pc = "raised", !.exc = "JSONDecodeError",
                        !.log = Append(log2,
                            LogRecord("error", "Invalid JSON in quiz_concept_wiki.json")) ]
             ELSE IF ~e.has_quiz
               THEN [ e EXCEPT !.pc = "write", !.log = log2 ]
             ELSE IF Len(e.quiz_lists) = 0
               THEN [ e EXCEPT !.pc = "write", !.scored = TRUE, !.log = log2 ]
             ELSE [ e EXCEPT !.pc = "questions", !.qi = 1, !.log = log2 ]
    /\ UNCHANGED <<cacheVars, retryVars, quizVars, stage, main, validation, artifacts>>

\* Lines 170-172: append the score map of the question and go on to the next
\* question; after the last one the list becomes the area's llm_score.
next_question(e, entry) ==
    LET metrics == Append(e.metrics, entry)
        last == e.qi = Len(e.quiz_lists)
    IN  [ e EXCEPT !.metrics = metrics, !.attempt = 0, !.calls = 0,
                   !.qi = IF last THEN e.qi ELSE e.qi + 1,
                   !.pc = IF last THEN "write" ELSE "questions",
                   !.llm_score = IF last
                       THEN [ i \in 1..Len(metrics) |-> metrics[i].score ]
                       ELSE e.llm_score,
                   !.scored = last ]

\* Lines 106-110: a question without quizzes.
evaluate_skip ==
    /\ evaluation.pc = "questions"
    /\ skip_question(evaluation.quiz_lists[evaluation.qi])
    /\ evaluation' = next_question([ evaluation EXCEPT !.error = "" ],
                        [ score |-> create_score_dict(0), calls |-> 0,
                          failures |-> 0 ])
    /\ UNCHANGED <<cacheVars, retryVars, quizVars, stage, main, validation, artifacts>>

\* Lines 121-168 with retry.py 41-60: one attempt of evaluate_quiz under
\* retry_with_backoff, up to the return, the backoff sleep, or the re-raise
\* that the except at line 165 turns into the error marker.  An exception
\* that neither except clause catches leaves evaluate.
evaluate_attempt ==
    /\ evaluation.pc = "questions"
    /\ ~skip_question(evaluation.quiz_lists[evaluation.qi])
    /\ \E response \in EvalResponses :
         LET e == evaluation
             result == evaluate_quiz(response)
             calls == e.calls + 1
         IN  evaluation' =
               IF result.kind = "ok"
                 THEN next_question([ e EXCEPT !.error = "" ],
                        [ score |-> result.scores, calls |-> calls,
                          failures |-> e.attempt ])
               ELSE IF ~is_caught(result.type)
                 THEN [ e EXCEPT !.pc = "raised", !.exc = result.type,
                          !.calls = calls ]
               ELSE IF is_last_attempt(EvalRetryArgs, e.attempt)
                 THEN next_question(
                        [ e EXCEPT !.error = result.type,
                            !.log = Append(e.log, LogRecord("error",
                                "Failed to evaluate quiz after MAX_RETRIES attempts")) ],
                        [ score |-> create_score_dict(-1), calls |-> calls,
                          failures |-> e.attempt + 1 ])
               ELSE [ e EXCEPT !.attempt = e.attempt + 1, !.calls = calls,
                        !.error = result.type,
                        !.log = Append(e.log, LogRecord("warning",
                            "Attempt failed. Retrying")) ]
    /\ UNCHANGED <<cacheVars, retryVars, quizVars, stage, main, validation, artifacts>>

\* Lines 174-178: write wiki_evaluation.json.
evaluate_write ==
    /\ evaluation.pc = "write"
    /\ \E fault \in {"ok", "io_error"} :
         LET log1 == Append(evaluation.log, LogRecord("info",
                        "Writing evaluation results to wiki_evaluation.json"))
         IN  evaluation' =
               IF fault = "ok"
                 THEN [ evaluation EXCEPT !.pc = "done", !.written = TRUE,
                          !.log = Append(log1, LogRecord("info",
                              "Evaluation completed successfully")) ]
               ELSE [ evaluation EXCEPT !.pc = "raised", !.exc = "OSError",
                        !.log = log1 ]
    /\ UNCHANGED <<cacheVars, retryVars, quizVars, stage, main, validation, artifacts>>

(***************************************************************************)
(* seed_questions and extract_concepts                                     *)
(***************************************************************************)

\* Lines of areas.txt, at most.
MaxAreas == 2

\* config.py, EDUCATION_LEVELS.
EDUCATION_LEVELS == << "primary school", "high school", "college" >>

\* sanitise_area_name, utils/validation.py 15-37: the sanitised name, or
\* ValueError when it does not match ^[a-z\s\-&]+$.
sanitise_area_name(area) ==
    LET sanitised == strip(lower(replace(area, "_", " ")))
    IN  IF /\ Len(sanitised) >= 1
           /\ \A i \in 1..Len(sanitised) :
                 sanitised[i] \in LowerLetters \cup Whitespace \cup {"-", "&"}
          THEN [ raised |-> FALSE, value |-> sanitised ]
        ELSE [ raised |-> TRUE, value |-> << >> ]

\* validate_questions, utils/validation.py 40-62: the questions kept, and
\* whether the warning about their number is logged.
validate_questions_trimmed(questions, min_count) ==
    LET valid_questions ==
          SelectSeq([ i \in 1..Len(questions) |-> strip(questions[i]) ],
                    LAMBDA q : q # << >>)
    IN  [ valid |-> valid_questions, warned |-> Len(valid_questions) < min_count ]
validate_questions(questions, min_count) ==
    LET valid_questions == SelectSeq(questions, LAMBDA q : strip(q) # << >>)
    IN  [ valid |-> valid_questions, warned |-> Len(valid_questions) < min_count ]

\* validate_concepts, utils/validation.py 65-94: the concepts kept, and
\* whether a warning is logged.
validate_concepts_strict(concepts) ==
    LET stripped == [ i \in 1..Len(concepts) |-> strip(concepts[i]) ]
        valid_concepts ==
          SelectSeq(stripped, LAMBDA c : c # << >> /\ word_count(c) < 10)
    IN  [ valid |-> valid_concepts,
          warned |-> \/ valid_concepts = << >>
                     \/ \E i \in 1..Len(stripped) : word_count(stripped[i]) >= 10 ]
validate_concepts(concepts) ==
    LET stripped == [ i \in 1..Len(concepts) |-> strip(concepts[i]) ]
        valid_concepts ==
          SelectSeq(stripped, LAMBDA c : c # << >> /\ word_count(c) <= 10)
    IN  [ valid |-> valid_concepts,
          warned |-> \/ valid_concepts = << >>
                     \/ \E i \in 1..Len(stripped) : word_count(stripped[i]) > 10 ]

\* Lines of areas.txt.
AreaLines ==
    { << "A", "r", "t", "_", "L", "a", "w" >>,
      << " ", "a", "r", "t", " " >>,
      << "M", "a", "t", "h", "!" >>,
      << >> }

\* Contents of the model's answer to the seeding prompt, as the lines of
\* content.split("\n").
SeedContents ==
    { << << "Q", "1", "?" >>, << " " >>, << " ", "Q", "2", "?", " " >>,
         << "Q", "3", "?" >> >>,
      << << "Q", "1", "?" >>, << >> >> }

\* A concept of eleven words.
LongConcept ==
    [ i \in 1..21 |-> IF i % 2 = 1 THEN "a" ELSE " " ]

\* Contents of the model's answer to the concept prompt, as the parts of
\* content.strip("[]").split(", ").
ConceptContents ==
    { << << "h", "e", "a", "t" >>, << " ", "g", "a", "s", " " >>, LongConcept >>,
      << << " " >> >> }

\* json and text values that are empty.
NoOutput == [ k \in {} |-> << >> ]

\* dict[key] = value.
Put(f, key, value) ==
    [ k \in DOMAIN f \cup {key} |-> IF k = key THEN value ELSE f[k] ]

StageInit ==
    /\ CacheIdle /\ RetryIdle /\ QuizIdle /\ EvalIdle /\ MainIdle
    /\ ValidateIdle /\ ArtifactsIdle
    /\ \/ \E input \in {"ok", "missing"}, n \in 0..MaxAreas :
            \E items \in [ 1..n -> AreaLines ] :
               /\ input = "missing" => n = 0
               /\ stage = [ NoStage EXCEPT !.name = "seed", !.pc = "start",
                              !.input = input, !.items = items ]
       \/ \E input \in InputStates, n \in 0..MaxQuestions :
            /\ input # "ok" => n = 0
            /\ stage = [ NoStage EXCEPT !.name = "concepts", !.pc = "start",
                           !.input = input,
                           !.items = [ i \in 1..n |-> "What is heat?" ] ]

\* seeding.py 40-42: the next level starts with an empty dict.
seed_enter_level(st, level) ==
    [ st EXCEPT !.out = Put(st.out, EDUCATION_LEVELS[level], NoOutput),
                !.level = level, !.i = 1, !.pc = "areas",
                !.log = Append(st.log, LogRecord("info", "Generating questions")) ]

\* seeding.py 34-42: read areas.txt and enter the loops.
seed_start ==
    /\ stage.name = "seed" /\ stage.pc = "start"
    /\ LET log1 == Append(stage.log,
                     LogRecord("info", "Reading subject areas from areas.txt"))
       IN  stage' =
             IF stage.input = "missing"
               THEN [ stage EXCEPT !.pc = "raised", !.exc = "FileNotFoundError",
                        !.log = log1 ]
             ELSE IF stage.items = << >>
               THEN [ stage EXCEPT !.pc = "write", !.log = log1,
                        !.level = Len(EDUCATION_LEVELS),
                        !.out = [ l \in { EDUCATION_LEVELS[k] :
                                            k \in 1..Len(EDUCATION_LEVELS) } |->
                                    NoOutput ] ]
             ELSE seed_enter_level([ stage EXCEPT !.log = log1, !.out = NoOutput ], 1)
    /\ UNCHANGED <<cacheVars, retryVars, quizVars, evaluation, main, validation, artifacts>>

\* seeding.py 44-57: one pass of `for area in areas`.
seed_area ==
    /\ stage.name = "seed" /\ stage.pc = "areas"
    /\ \E chat \in {"ok", "error"}, content \in SeedContents :
         LET area == sanitise_area_name(stage.items[stage.i])
             level == EDUCATION_LEVELS[stage.level]
             lines == [ k \in 1..Len(content) |-> strip(content[k]) ]
             questions ==
               validate_questions(SelectSeq(lines, LAMBDA q : q # << >>), 3)
             st == [ stage EXCEPT
                       !.out = Put(stage.out, level,
                                 Put(stage.out[level], area.value, questions.valid)),
                       !.log = IF questions.warned
                                 THEN Append(stage.log, LogRecord("warning",
                                        "Fewer questions than expected"))
                               ELSE stage.log ]
         IN  stage' =
               IF area.raised
                 THEN [ stage EXCEPT !.pc = "raised", !.exc = "ValueError" ]
               ELSE IF chat = "error"
                 THEN [ stage EXCEPT !.pc = "raised", !.exc = "Exception" ]
               ELSE IF stage.i < Len(stage.items)
                 THEN [ st EXCEPT !.i = stage.i + 1 ]
               ELSE IF stage.level < Len(EDUCATION_LEVELS)
                 THEN seed_enter_level(st, stage.level + 1)
               ELSE [ st EXCEPT !.pc = "write" ]
    /\ UNCHANGED <<cacheVars, retryVars, quizVars, evaluation, main, validation, artifacts>>

\* seeding.py 59-63: write questions.json.
seed_write ==
    /\ stage.name = "seed" /\ stage.pc = "write"
    /\ \E fault \in {"ok", "io_error"} :
         LET log1 == Append(stage.log,
                       LogRecord("info", "Writing questions to questions.json"))
         IN  stage' =
               IF fault = "ok"
                 THEN [ stage EXCEPT !.pc = "done", !.written = TRUE,
                          !.log = Append(log1, LogRecord("info",
                              "Successfully generated questions")) ]
               ELSE [ stage EXCEPT !.pc = "raised", !.exc = "OSError",
                        !.log = log1 ]
    /\ UNCHANGED <<cacheVars, retryVars, quizVars, evaluation, main, validation, artifacts>>

\* concepts.py 33-45: read questions.json and enter the loops.
concepts_start ==
    /\ stage.name = "concepts" /\ stage.pc = "start"
    /\ LET log1 == Append(stage.log,
                     LogRecord("info", "Reading questions from questions.json"))
       IN  stage' =
             IF stage.input = "missing"
               THEN [ stage EXCEPT !.pc = "raised", !.exc = "FileNotFoundError",
                        !.log = log1 ]
             ELSE IF stage.input = "invalid"
               THEN [ stage EXCEPT !.pc = "raised", !.exc = "JSONDecodeError",
                        !.log = log1 ]
             ELSE [ stage EXCEPT !.log = log1, !.level = 1,
                      !.pc = IF stage.items = << >> THEN "write" ELSE "questions",
                      !.i = IF stage.items = << >> THEN 0 ELSE 1 ]
    /\ UNCHANGED <<cacheVars, retryVars, quizVars, evaluation, main, validation, artifacts>>

\* concepts.py 47-60: one pass of `for question in question_list`.
concepts_question ==
    /\ stage.name = "concepts" /\ stage.pc = "questions"
    /\ \E chat \in {"ok", "error"}, content \in ConceptContents :
         LET answer == [ k \in 1..Len(content) |-> strip(content[k]) ]
             concepts ==
               validate_concepts(SelectSeq(answer, LAMBDA c : c # << >>))
             last == stage.i = Len(stage.items)
         IN  stage' =
               IF chat = "error"
                 THEN [ stage EXCEPT !.pc = "raised", !.exc = "Exception" ]
               ELSE [ stage EXCEPT
                        !.out = Append(stage.out, concepts.valid),
                        !.log = IF concepts.warned
                                  THEN Append(stage.log, LogRecord("warning",
                                         "Concept dropped or none valid"))
                                ELSE stage.log,
                        !.i = IF last THEN stage.i ELSE stage.i + 1,
                        !.pc = IF last THEN "write" ELSE "questions" ]
    /\ UNCHANGED <<cacheVars, retryVars, quizVars, evaluation, main, validation, artifacts>>

\* concepts.py 62-66: write concepts.json.
concepts_write ==
    /\ stage.name = "concepts" /\ stage.pc = "write"
    /\ \E fault \in {"ok", "io_error"} :
         LET log1 == Append(stage.log,
                       LogRecord("info", "Writing concepts to concepts.json"))
         IN  stage' =
               IF fault = "ok"
                 THEN [ stage EXCEPT !.pc = "done", !.written = TRUE,
                          !.log = Append(log1, LogRecord("info",
                              "Concept extraction completed successfully")) ]
               ELSE [ stage EXCEPT !.pc = "raised", !.exc = "OSError",
                        !.log = log1 ]
    /\ UNCHANGED <<cacheVars, retryVars, quizVars, evaluation, main, validation, artifacts>>

StageNext ==
    \/ seed_start
    \/ seed_area
    \/ seed_write
    \/ concepts_start
    \/ concepts_question
    \/ concepts_write

StageSpec == StageInit /\ [][StageNext]_vars

(***************************************************************************)
(* Calls of the validators of utils/validation.py                          *)
(***************************************************************************)

\* Entries of a list given to a validator, at most.
MaxListLen == 2

\* A concept of ten words.
TenWords == [ i \in 1..19 |-> IF i % 2 = 1 THEN "b" ELSE " " ]

\* Raw area names.
RawAreas ==
    AreaLines \cup
      { << "_" >>, << "a", "\t", "b" >>, << "a", "\n", "b" >>,
        << "R", "&", "D" >>, << "x", "-", "r", "a", "y", "_" >> }

\* Entries of a concept list.
ConceptEntries ==
    { << "h", "e", "a", "t" >>, << " ", "g", "a", "s", " " >>, << " " >>, << >>,
      TenWords, LongConcept }

\* Entries of a question list.
QuestionEntries ==
    { << "Q", "1", "?" >>, << " ", "Q", "2", "?", " " >>, << " ", "\t" >>, << >> }

\* Values of min_count.
MinCounts == 0..3

ValidateInit ==
    /\ CacheIdle /\ RetryIdle /\ QuizIdle
    /\ EvalIdle /\ StageIdle /\ MainIdle /\ ArtifactsIdle
    /\ \/ \E area \in RawAreas :
            validation = [ NoValidation EXCEPT !.fn = "sanitise_area_name",
                             !.arg = area, !.pc = "called" ]
       \/ \E n \in 0..MaxListLen : \E concepts \in [ 1..n -> ConceptEntries ] :
            validation = [ NoValidation EXCEPT !.fn = "validate_concepts",
                             !.arg = concepts, !.pc = "called" ]
       \/ \E n \in 0..MaxListLen, min_count \in MinCounts :
            \E questions \in [ 1..n -> QuestionEntries ] :
               validation = [ NoValidation EXCEPT !.fn = "validate_questions",
                                !.arg = questions, !.min_count = min_count,
                                !.pc = "called" ]

\* utils/validation.py 15-37.
do_sanitise_area_name ==
    /\ validation.fn = "sanitise_area_name" /\ validation.pc = "called"
    /\ LET r == sanitise_area_name(validation.arg)
       IN  validation' = [ validation EXCEPT
                             !.pc = IF r.raised THEN "raised" ELSE "returned",
                             !.ret = r.value ]
    /\ UNCHANGED <<cacheVars, retryVars, quizVars, evaluation, stage, main,
                   artifacts>>

\* utils/validation.py 40-62.
do_validate_questions ==
    /\ validation.fn = "validate_questions" /\ validation.pc = "called"
    /\ LET r == validate_questions(validation.arg, validation.min_count)
       IN  validation' = [ validation EXCEPT !.pc = "returned", !.ret = r.valid,
                             !.warned = r.warned ]
    /\ UNCHANGED <<cacheVars, retryVars, quizVars, evaluation, stage, main,
                   artifacts>>

\* utils/validation.py 65-94.
do_validate_concepts ==
    /\ validation.fn = "validate_concepts" /\ validation.pc = "called"
    /\ LET r == validate_concepts(validation.arg)
       IN  validation' = [ validation EXCEPT !.pc = "returned", !.ret = r.valid,
                             !.warned = r.warned ]
    /\ UNCHANGED <<cacheVars, retryVars, quizVars, evaluation, stage, main,
                   artifacts>>

ValidateNext ==
    \/ do_sanitise_area_name
    \/ do_validate_questions
    \/ do_validate_concepts

ValidateSpec == ValidateInit /\ [][ValidateNext]_vars

(***************************************************************************)
(* A run of main with --step all, for one level and one area: the lists    *)
(* that the four stages keep per question                                  *)
(***************************************************************************)

\* seeding.py 54-56: the questions of the area.
seeded_questions(content) ==
    LET lines == [ k \in 1..Len(content) |-> strip(content[k]) ]
    IN  validate_questions(SelectSeq(lines, LAMBDA q : q # << >>), 3).valid

\* concepts.py 56-58: the concepts of a question.
extracted_concepts(content) ==
    LET answer == [ k \in 1..Len(content) |-> strip(content[k]) ]
    IN  validate_concepts(SelectSeq(answer, LAMBDA c : c # << >>)).valid

\* An entry of a per-question list, with the question of the loop pass that
\* made it.
Entry(question, value) == [ for |-> question, value |-> value ]

\* concepts.py 59: the concepts of the question are appended, also when none
\* is left.
append_concepts_nonempty(list, question, concepts) ==
    IF concepts = << >> THEN list ELSE Append(list, Entry(question, concepts))
append_concepts(list, question, concepts) ==
    Append(list, Entry(question, concepts))

\* The passes of `for ... in zip(a, b)`.
zip_len(a, b) == IF Len(a) <= Len(b) THEN Len(a) ELSE Len(b)

\* What the retriever returns for a question, concatenated.
WikiInformation == { "", "Information 1" }

\* The ways a stage can fail while it processes an item.
PipelineFaults == { "ok", "Exception", "KeyboardInterrupt" }

\* The ways the write of an artifact can end: open(name, "w") raises and the
\* file is untouched, or the write raises after open() truncated the file.
ArtifactWriteFaults == { "ok", "open_error", "write_error" }

\* main.py 101-106: either except clause returns 1.
pipeline_failed(a) == [ a EXCEPT !.pc = "returned", !.ret = 1, !.failed = a.pc ]

\* The loops keep their results in memory (out, questions, data, wiki,
\* quizzes): a pass writes no artifact.
flush_each_item(disk, name, data) == [ disk EXCEPT ![name] = WrittenFile(data) ]
keep_in_memory(disk, name, data) == disk

\* `with open(name, "w") as f: f.write(json.dumps(data, indent=4))`.
write_artifact(disk, name, data, fault) ==
    IF fault = "ok" THEN [ disk EXCEPT ![name] = WrittenFile(data) ]
    ELSE IF fault = "open_error" THEN disk
    ELSE [ disk EXCEPT ![name] = TruncatedFile ]

\* The working directory at the start: empty, or as an earlier run of the
\* whole pipeline left it.
PipelineInit ==
    /\ CacheIdle /\ RetryIdle /\ QuizIdle
    /\ EvalIdle /\ StageIdle /\ MainIdle /\ ValidateIdle
    /\ \/ artifacts = [ NoArtifacts EXCEPT !.pc = "seed" ]
       \/ artifacts = [ NoArtifacts EXCEPT !.pc = "seed",
                          !.disk = [ n \in ArtifactNames |-> OldFile ],
                          !.cache = { "thermal energy" },
                          !.index = TRUE ]

\* seeding.py 35-57 for the area: the questions kept in `out`.
run_seed_questions ==
    /\ artifacts.pc = "seed"
    /\ \E fault \in PipelineFaults, content \in SeedContents :
         artifacts' =
           IF fault # "ok" THEN pipeline_failed(artifacts)
           ELSE [ artifacts EXCEPT !.questions = seeded_questions(content),
                    !.disk = keep_in_memory(artifacts.disk, "questions.json",
                               seeded_questions(content)),
                    !.pc = "seed_write" ]
    /\ UNCHANGED <<cacheVars, retryVars, quizVars, evaluation, stage, main,
                   validation>>

\* seeding.py 59-63: write questions.json.
run_seed_write ==
    /\ artifacts.pc = "seed_write"
    /\ \E fault \in ArtifactWriteFaults :
         LET disk == write_artifact(artifacts.disk, "questions.json",
                       artifacts.questions, fault)
         IN  artifacts' =
               IF fault # "ok"
                 THEN pipeline_failed([ artifacts EXCEPT !.disk = disk ])
               ELSE [ artifacts EXCEPT !.disk = disk, !.pc = "concepts", !.i = 1 ]
    /\ UNCHANGED <<cacheVars, retryVars, quizVars, evaluation, stage, main,
                   validation>>

\* concepts.py 47-59: one pass of `for question in question_list`.
run_extract_concepts ==
    /\ artifacts.pc = "concepts"
    /\ artifacts.i <= Len(artifacts.questions)
    /\ \E fault \in PipelineFaults, content \in ConceptContents :
         LET concepts == append_concepts(artifacts.concepts,
                           artifacts.questions[artifacts.i],
                           extracted_concepts(content))
         IN  artifacts' =
               IF fault # "ok" THEN pipeline_failed(artifacts)
               ELSE [ artifacts EXCEPT
                        !.concepts = concepts,
                        !.disk = keep_in_memory(artifacts.disk, "concepts.json",
                                   << artifacts.questions, concepts >>),
                        !.i = artifacts.i + 1 ]
    /\ UNCHANGED <<cacheVars, retryVars, quizVars, evaluation, stage, main,
                   validation>>

\* concepts.py 42-45 and 62-66: concepts.json holds the questions as read and
\* the concepts.
run_concepts_write ==
    /\ artifacts.pc = "concepts"
    /\ artifacts.i > Len(artifacts.questions)
    /\ \E fault \in ArtifactWriteFaults :
         LET disk == write_artifact(artifacts.disk, "concepts.json",
                       << artifacts.questions, artifacts.concepts >>, fault)
         IN  artifacts' =
               IF fault # "ok"
                 THEN pipeline_failed([ artifacts EXCEPT !.disk = disk ])
               ELSE [ artifacts EXCEPT
                        !.disk = disk,
                        !.carried = Append(artifacts.carried, artifacts.questions),
                        !.pc = "quiz", !.i = 1 ]
    /\ UNCHANGED <<cacheVars, retryVars, quizVars, evaluation, stage, main,
                   validation>>

\* quiz.py 74-165: one pass of `for question, concepts in zip(...)` over the
\* questions and concepts of concepts.json.  `newly` are the concepts whose
\* pages the pass caches (line 99) before it ends or fails; `persisted`
\* tells whether a failing pass got as far as the index (lines 110-115).
run_generate_quiz ==
    /\ artifacts.pc = "quiz"
    /\ artifacts.i <= zip_len(artifacts.carried[1], artifacts.concepts)
    /\ \E fault \in PipelineFaults, sections \in QuizResponses,
          wiki_information \in WikiInformation,
          newly \in { {}, { "Thermal energy" } }, persisted \in BOOLEAN :
         LET question == artifacts.carried[1][artifacts.i]
             quizzes == Append(artifacts.quiz,
                          Entry(question, parse_quiz(sections)))
         IN  /\ fault = "ok" => persisted
             /\ artifacts' =
               IF fault # "ok"
                 THEN pipeline_failed([ artifacts EXCEPT
                        !.cache = artifacts.cache \cup newly,
                        !.index = artifacts.index \/ persisted ])
               ELSE [ artifacts EXCEPT
                        !.quiz = quizzes,
                        !.summary = Append(artifacts.summary,
                                      Entry(question, "summary")),
                        !.wiki = Append(artifacts.wiki,
                                   Entry(question, wiki_information)),
                        !.cache = artifacts.cache \cup newly,
                        !.index = TRUE,
                        !.disk = keep_in_memory(artifacts.disk,
                                   "quiz_concept_wiki.json",
                                   << artifacts.carried[1], artifacts.concepts,
                                      quizzes >>),
                        !.i = artifacts.i + 1 ]
    /\ UNCHANGED <<cacheVars, retryVars, quizVars, evaluation, stage, main,
                   validation>>

\* quiz.py 167-173: quiz_concept_wiki.json holds the data of concepts.json and
\* the quizzes; wiki.json, written second, holds the summaries and the
\* retrieved texts.  `at` is the write that fails, if one does.
run_quiz_write ==
    /\ artifacts.pc = "quiz"
    /\ artifacts.i > zip_len(artifacts.carried[1], artifacts.concepts)
    /\ \E fault \in ArtifactWriteFaults, at \in {1, 2} :
         LET data == << artifacts.carried[1], artifacts.concepts, artifacts.quiz >>
             wiki == << artifacts.summary, artifacts.wiki >>
             first == write_artifact(artifacts.disk, "quiz_concept_wiki.json",
                        data, IF at = 1 THEN fault ELSE "ok")
             second == write_artifact(first, "wiki.json", wiki, fault)
         IN  /\ fault = "ok" => at = 1
             /\ artifacts' =
               IF fault # "ok"
                 THEN pipeline_failed([ artifacts EXCEPT
                        !.disk = IF at = 1 THEN first ELSE second ])
               ELSE [ artifacts EXCEPT
                        !.disk = second,
                        !.carried = Append(artifacts.carried, artifacts.carried[1]),
                        !.pc = "eval", !.i = 1 ]
    /\ UNCHANGED <<cacheVars, retryVars, quizVars, evaluation, stage, main,
                   validation>>

\* evaluation.py 103-170: one pass of `for question, quiz_list, wiki in
\* zip(...)`, with all the attempts of retry_with_backoff.
run_evaluate ==
    /\ artifacts.pc = "eval"
    /\ artifacts.i <= zip_len(artifacts.carried[2],
                        SubSeq(artifacts.quiz, 1,
                               zip_len(artifacts.quiz, artifacts.summary)))
    /\ \E response \in EvalResponses :
         LET question == artifacts.carried[2][artifacts.i]
             result == evaluate_quiz(response)
             score == IF skip_question(artifacts.quiz[artifacts.i].value)
                        THEN create_score_dict(0)
                      ELSE IF result.kind = "ok" THEN result.scores
                      ELSE create_score_dict(-1)
             llm_score == Append(artifacts.llm_score, Entry(question, score))
         IN  artifacts' =
               IF /\ ~skip_question(artifacts.quiz[artifacts.i].value)
                  /\ result.kind = "raised" /\ ~is_caught(result.type)
                 THEN pipeline_failed(artifacts)
               ELSE [ artifacts EXCEPT
                        !.llm_score = llm_score,
                        !.disk = keep_in_memory(artifacts.disk,
                                   "wiki_evaluation.json",
                                   << artifacts.carried[2], artifacts.concepts,
                                      artifacts.quiz, llm_score >>),
                        !.i = artifacts.i + 1 ]
    /\ UNCHANGED <<cacheVars, retryVars, quizVars, evaluation, stage, main,
                   validation>>

\* evaluation.py 172-178 and main.py 96-99: wiki_evaluation.json holds the data
\* of quiz_concept_wiki.json and the scores; main returns 0.
run_evaluate_write ==
    /\ artifacts.pc = "eval"
    /\ artifacts.i > zip_len(artifacts.carried[2],
                       SubSeq(artifacts.quiz, 1,
                              zip_len(artifacts.quiz, artifacts.summary)))
    /\ \E fault \in ArtifactWriteFaults :
         LET disk == write_artifact(artifacts.disk, "wiki_evaluation.json",
                       << artifacts.carried[2], artifacts.concepts,
                          artifacts.quiz, artifacts.llm_score >>, fault)
         IN  artifacts' =
               IF fault # "ok"
                 THEN pipeline_failed([ artifacts EXCEPT !.disk = disk ])
               ELSE [ artifacts EXCEPT
                        !.disk = disk,
                        !.carried = Append(artifacts.carried, artifacts.carried[2]),
                        !.pc = "returned", !.ret = 0 ]
    /\ UNCHANGED <<cacheVars, retryVars, quizVars, evaluation, stage, main,
                   validation>>

PipelineNext ==
    \/ run_seed_questions
    \/ run_seed_write
    \/ run_extract_concepts
    \/ run_concepts_write
    \/ run_generate_quiz
    \/ run_quiz_write
    \/ run_evaluate
    \/ run_evaluate_write

PipelineSpec == PipelineInit /\ [][PipelineNext]_vars

(***************************************************************************)
(* main                                                                    *)
(***************************************************************************)

\* The stages in the order of the `if step in [...]` blocks of lines 76-94.
STAGES == << "seed", "concepts", "quiz", "eval" >>

\* The choices of --step.
Steps == { "seed", "concepts", "quiz", "eval", "all" }

\* `if step in [name, "all"]`.
is_selected_always(step_arg, name) == TRUE
is_selected(step_arg, name) == step_arg \in { name, "all" }

\* How the call of a stage ends: it returns, or an exception leaves it.
StageOutcomes == { "returns", "Exception", "KeyboardInterrupt" }

MainInit ==
    /\ files \in QuizInitialDirs
    /\ lastSet = [ c \in Concepts |-> None ]
    /\ ioFailed = FALSE
    /\ call = NoCall
    /\ RetryIdle /\ QuizIdle /\ EvalIdle /\ StageIdle
    /\ ValidateIdle /\ ArtifactsIdle
    /\ \E step_arg \in Steps, clear_cache \in BOOLEAN :
         main = [ NoMain EXCEPT !.pc = "start", !.step = step_arg,
                    !.clear_cache = clear_cache ]

\* Lines 61-75: set up logging, clear the cache when asked to, log the banner
\* and enter the try block.  The cache directory is created outside the try:
\* when that fails the exception leaves main.
main_begin ==
    /\ main.pc = "start"
    /\ \E mkdir \in {"ok", "error"}, failing \in SUBSET (DOMAIN files) :
         IF ~main.clear_cache
           THEN /\ mkdir = "ok" /\ failing = {}
                /\ main' = [ main EXCEPT !.pc = "try",
                               !.log = Append(main.log, LogRecord("info", "banner")) ]
                /\ UNCHANGED cacheVars
         ELSE IF mkdir = "error"
           THEN /\ failing = {}
                /\ main' = [ main EXCEPT !.pc = "raised", !.exc = "OSError" ]
                /\ UNCHANGED cacheVars
         ELSE /\ files' = clear_files(files, failing)
              /\ lastSet' = [ c \in Concepts |-> None ]
              /\ ioFailed' = (ioFailed \/ failing # {})
              /\ call' = [ NoCall EXCEPT !.op = "clear",
                             !.count = clear_count(files, failing),
                             !.warned = (failing # {}),
                             !.present = Cardinality(DOMAIN files) ]
              /\ main' = [ main EXCEPT !.pc = "try",
                             !.log = main.log \o
                                << LogRecord("info", "Cleared cached Wikipedia pages"),
                                   LogRecord("info", "banner") >> ]
    /\ UNCHANGED <<retryVars, quizVars, evaluation, stage, validation, artifacts>>

\* The next `if step in [...]` block: the stage after those passed so far.
next_stage(m) == Len(m.started) + Len(m.skipped) + 1

\* Lines 76-78, 81-83, 86-88, 91-93: the test of a block and, when the stage
\* is selected, the call of the stage.
main_call ==
    /\ main.pc = "try"
    /\ next_stage(main) <= Len(STAGES)
    /\ LET name == STAGES[next_stage(main)]
       IN  main' =
             IF is_selected(main.step, name)
               THEN [ main EXCEPT !.pc = "stage",
                        !.started = Append(main.started, name),
                        !.log = Append(main.log, LogRecord("info", "Step: " \o name)) ]
             ELSE [ main EXCEPT !.skipped = Append(main.skipped, name) ]
    /\ UNCHANGED <<cacheVars, retryVars, quizVars, evaluation, stage, validation, artifacts>>

\* How the call of stage `name` can end now: as evaluate has ended when the
\* run of evaluate is followed, in any of the ways otherwise.
stage_outcomes(name) ==
    IF name # "eval" \/ evaluation.pc = "idle" THEN StageOutcomes
    ELSE IF evaluation.pc = "done" THEN { "returns" }
    ELSE IF evaluation.pc = "raised"
      THEN { IF evaluation.exc = "KeyboardInterrupt" THEN "KeyboardInterrupt"
             ELSE "Exception" }
    ELSE { }

\* Lines 79, 84, 89, 94 and 101-106: the stage returns, or raises into one of
\* the two except clauses, which return 1.
main_stage_end ==
    /\ main.pc = "stage"
    /\ \E outcome \in stage_outcomes(main.started[Len(main.started)]) :
         LET name == main.started[Len(main.started)]
         IN  main' =
               IF outcome = "returns"
                 THEN [ main EXCEPT !.pc = "try",
                          !.completed = Append(main.completed, name),
                          !.log = Append(main.log,
                                    LogRecord("info", "Completed: " \o name)) ]
               ELSE IF outcome = "KeyboardInterrupt"
                 THEN [ main EXCEPT !.pc = "returned", !.ret = 1,
                          !.exc = outcome,
                          !.log = Append(main.log, LogRecord("warning",
                                    "Pipeline interrupted by user")) ]
               ELSE [ main EXCEPT !.pc = "returned", !.ret = 1, !.exc = outcome,
                        !.log = Append(main.log,
                                  LogRecord("error", "Pipeline failed")) ]
    /\ UNCHANGED <<cacheVars, retryVars, quizVars, evaluation, stage, validation, artifacts>>

\* Lines 96-99: all four blocks are passed.
main_return ==
    /\ main.pc = "try"
    /\ next_stage(main) > Len(STAGES)
    /\ main' = [ main EXCEPT !.pc = "returned", !.ret = 0,
                   !.log = Append(main.log,
                             LogRecord("info", "Pipeline completed successfully")) ]
    /\ UNCHANGED <<cacheVars, retryVars, quizVars, evaluation, stage, validation, artifacts>>

MainNext ==
    \/ main_begin
    \/ main_call
    \/ main_stage_end
    \/ main_return

MainSpec == MainInit /\ [][MainNext]_vars

\* The run of main with --step eval or --step all from the try block on, the
\* run of evaluate followed step by step.
EvalNext ==
    \/ main_call
    \/ evaluate_start
    \/ evaluate_skip
    \/ evaluate_attempt
    \/ evaluate_write
    \/ main_stage_end
    \/ main_return

EvalSpec == EvalInit /\ [][EvalNext]_vars

(***************************************************************************)
(* Properties of the cache                                                 *)
(***************************************************************************)

GetReturns(fs, c) == get_result(fs, c, "ok").ret

\* C1: as long as no file operation has failed, get(t) returns exactly the
\* content of the most recent set(t, c, id) since the last clear(), and None
\* when there was none; a get leaves the stored entries as they were; and a
\* set on t leaves what get returns for every other concept unchanged.
C1_RoundTrip ==
    /\ [](call.op = "get" /\ ~ioFailed => call.ret = lastSet[call.concept])
    /\ [][call'.op = "get" => files' = files]_vars
    /\ [][call'.op = "set" =>
            \A c \in Concepts \ {call'.concept} :
                GetReturns(files', c) = GetReturns(files, c)]_vars

\* C1's case: a get returning the empty content stored for one concept while
\* the other concept holds a different content.
C1_Witness ==
    /\ call.op = "get"
    /\ ~ioFailed
    /\ call.ret = ""
    /\ \E c \in Concepts \ {call.concept} : lastSet[c] = "text-b"

\* C2 as stated: clear() returns the number of entries present immediately
\* before the call, and afterwards get returns None for every concept.
C2_ClearCountsAllPresent ==
    call.op = "clear" =>
        /\ call.count = call.present
        /\ \A c \in Concepts : GetReturns(files, c) = None

\* C2, amended: clear() returns the number of entries it deleted (those present
\* before less those still present); when no deletion failed that is the
\* number present before the call and get returns None for every concept; and
\* get returns None for every concept whose file was deleted.
C2_ClearCountsDeleted ==
    call.op = "clear" =>
        /\ call.count = call.present - Cardinality(DOMAIN files)
        /\ ~call.warned =>
              /\ call.count = call.present
              /\ \A c \in Concepts : GetReturns(files, c) = None
        /\ \A c \in Concepts :
              get_cache_path(c) \notin DOMAIN files => GetReturns(files, c) = None

\* C2's case: a clear() that found two entries and deleted both.
C2_Witness ==
    /\ call.op = "clear"
    /\ call.present = 2
    /\ call.count = 2

\* C8: get never raises; it returns None without a warning when the concept
\* has no file, and None with a warning when the file exists but cannot be
\* read, does not parse or has no "content" field; it changes no file.
C8_GetNeverRaises ==
    /\ [](call.op = "get" =>
            LET p == get_cache_path(call.concept)
            IN  /\ ~call.raised
                /\ p \notin DOMAIN files => (call.ret = None /\ ~call.warned)
                /\ ( /\ p \in DOMAIN files
                     /\ \/ call.fault = "read_error"
                        \/ ~json_wellformed(files[p])
                        \/ "content" \notin DOMAIN json_load(files[p]) )
                   => (call.ret = None /\ call.warned))
    /\ [][call'.op = "get" => (files' = files /\ lastSet' = lastSet)]_vars

\* C8's case: a get of an entry that parses but has no "content" field.
C8_Witness ==
    /\ call.op = "get"
    /\ call.fault = "ok"
    /\ get_cache_path(call.concept) \in DOMAIN files
    /\ files[get_cache_path(call.concept)] = ForeignEntry(call.concept)
    /\ call.ret = None
    /\ call.warned

(***************************************************************************)
(* Properties of retry_with_backoff                                        *)
(***************************************************************************)

\* C3: with max_retries >= 1 and an operation that fails k < max_retries
\* times and then succeeds, the call returns the value of invocation k+1 after
\* exactly k+1 invocations and k sleeps, and a successful invocation is the
\* last thing that happens.
C3_SucceedsAfterKFailures ==
    /\ ( /\ RetryDone
         /\ retry.args.max_retries >= 1
         /\ retry.args.fails < retry.args.max_retries )
       => /\ retry.result.kind = "returned"
          /\ retry.result.from = retry.args.fails
          /\ Len(Calls) = retry.args.fails + 1
          /\ Calls[Len(Calls)].res = "ok"
          /\ Len(Sleeps) = retry.args.fails
    /\ \A i \in 1..Len(events) :
          (events[i].ev = "call" /\ events[i].res = "ok") => i = Len(events)

\* C3's case: two failures, then success on the third of four attempts.
C3_Witness ==
    /\ RetryDone
    /\ retry.args.max_retries = 4
    /\ retry.args.fails = 2
    /\ retry.result.kind = "returned"
    /\ Len(Sleeps) = 2

\* C4: with max_retries >= 1 and an operation that fails every time, the
\* operation is invoked exactly max_retries times, max_retries - 1 sleeps
\* occur, and the call raises the exception of the final invocation itself.
C4_RaisesAfterMaxRetries ==
    ( /\ RetryDone
      /\ retry.args.max_retries >= 1
      /\ retry.args.fails >= retry.args.max_retries )
    => /\ Len(Calls) = retry.args.max_retries
       /\ \A i \in 1..Len(Calls) : Calls[i].res = "error"
       /\ Len(Sleeps) = retry.args.max_retries - 1
       /\ retry.result.kind = "raised"
       /\ retry.result.type = "Exception"
       /\ retry.result.from = Calls[Len(Calls)].attempt
       /\ retry.result.from = retry.args.max_retries - 1

\* C4's case: three attempts, all failed, the third one's exception raised.
C4_Witness ==
    /\ RetryDone
    /\ retry.args.max_retries = 3
    /\ retry.args.fails >= 3
    /\ retry.result.kind = "raised"
    /\ Len(Calls) = 3

\* C5 as stated: the durations slept in one call are non-decreasing, jitter
\* enabled or not.
C5_SleepsNonDecreasing ==
    \A i, j \in 1..Len(Sleeps) : i < j => Sleeps[i].delay <= Sleeps[j].delay

\* C5, amended: with jitter disabled the durations slept are non-decreasing;
\* with jitter enabled a later sleep is never shorter than an earlier one by
\* more than one second (the part min(base_delay * 2^i, max_delay) is
\* non-decreasing, the jitter added to it is not).
C5_SleepsNonDecreasingButJitter ==
    \A i, j \in 1..Len(Sleeps) :
        i < j =>
          /\ ~retry.args.jitter => Sleeps[i].delay <= Sleeps[j].delay
          /\ Sleeps[i].delay - TicksPerSecond <= Sleeps[j].delay
          /\ Sleeps[i].delay - Sleeps[i].u <= Sleeps[j].delay - Sleeps[j].u

\* C5's case: with jitter, a second sleep shorter than the first.
C5_Witness ==
    /\ retry.args.jitter
    /\ Len(Sleeps) >= 2
    /\ Sleeps[2].delay < Sleeps[1].delay

\* C6: the duration slept after failed attempt i < max_retries - 1 is
\* min(base_delay * 2^i, max_delay) without jitter, and that plus the jitter
\* drawn, a value from 0 to 1 second, with jitter: max_delay caps the
\* exponential part only.
C6_DelayFormula ==
    \A n \in 1..Len(Sleeps) :
        LET e == Sleeps[n]
            cap == IF retry.args.base_delay * (2 ^ e.attempt) <= retry.args.max_delay
                     THEN retry.args.base_delay * (2 ^ e.attempt)
                     ELSE retry.args.max_delay
        IN  /\ e.attempt = n - 1
            /\ e.attempt < retry.args.max_retries - 1
            /\ ~retry.args.jitter => e.delay = cap
            /\ retry.args.jitter => (cap <= e.delay /\ e.delay <= cap + TicksPerSecond)
            /\ e.delay = cap + e.u

\* C6's case: a jittered sleep longer than max_delay.
C6_Witness ==
    /\ retry.args.jitter
    /\ \E n \in 1..Len(Sleeps) :
          /\ Sleeps[n].delay > retry.args.max_delay
          /\ retry.args.base_delay * (2 ^ Sleeps[n].attempt) > retry.args.max_delay

\* C7 as stated: every failed attempt, the final one included, is logged
\* before the retrier sleeps or propagates the failure.
C7_EveryFailureLogged ==
    \A i \in 1..Len(events) :
        events[i].ev \in {"sleep", "raise"} /\ retry.result.type # "RuntimeError"
          => /\ i > 1
             /\ events[i - 1].ev = "log"
             /\ events[i - 1].attempt = events[i].attempt

\* C7, amended: every failed attempt that is retried is logged, with the delay
\* about to be slept, before the retrier sleeps; the failure of the final
\* attempt is propagated right after the failed call, without a log record.
C7_RetriedFailuresLogged ==
    \A i \in 1..Len(events) :
        /\ events[i].ev = "sleep"
             => /\ i > 2
                /\ events[i - 1].ev = "log"
                /\ events[i - 1].attempt = events[i].attempt
                /\ events[i - 1].delay = events[i].delay
                /\ events[i - 2].ev = "call"
                /\ events[i - 2].res = "error"
                /\ events[i - 2].attempt = events[i].attempt
        /\ (events[i].ev = "call" /\ events[i].res = "error" /\ i < Len(events))
             => \/ events[i + 1].ev = "log" /\ events[i].attempt < retry.args.max_retries - 1
                \/ events[i + 1].ev = "raise" /\ events[i].attempt = retry.args.max_retries - 1

\* C7's case: three attempts failed, two log records, then the raise.
C7_Witness ==
    /\ RetryDone
    /\ retry.args.max_retries = 3
    /\ retry.result.kind = "raised"
    /\ Len(Logs) = 2
    /\ events[Len(events)].ev = "raise"
    /\ events[Len(events) - 1].ev = "call"

(***************************************************************************)
(* Properties of the quiz stage's use of the cache                         *)
(***************************************************************************)

\* C9: set never raises to generate_quiz: when the write of a fetched page
\* fails, set logs a warning and returns, and the stage goes on with the
\* Document of the fetched page appended, without a stage warning.
C9_SetFailureSwallowed ==
    /\ ~step.set_raised
    /\ step.set \in {"open_error", "write_error"} =>
          LET page == quiz.pages[step.concept]
          IN  /\ step.set_warned
              /\ quiz.pc = "concepts"
              /\ step.doc
              /\ ~step.warned
              /\ Len(quiz.wiki_docs) >= 1
              /\ quiz.wiki_docs[Len(quiz.wiki_docs)] =
                    [id |-> page.pageid, text |-> page.text]

\* C9's case: the write of a fetched page failed after truncating the file.
C9_Witness ==
    /\ step.set = "write_error"
    /\ step.fetched = "ok"
    /\ step.doc
    /\ quiz.pc = "concepts"
    /\ get_cache_path(step.concept) \in DOMAIN files

\* An entry that exists, parses and has a "content" field.
EntryIntact(fs, concept) ==
    /\ get_cache_path(concept) \in DOMAIN fs
    /\ json_wellformed(fs[get_cache_path(concept)])
    /\ "content" \in DOMAIN json_load(fs[get_cache_path(concept)])

\* C10 as stated, in its most favourable reading (the entry is intact and
\* the read does not fail): no pass of the concept loop issues a fetch for a
\* concept whose cache entry existed when the pass began, whatever its content.
C10_NoFetchOnceCached ==
    [][ (quiz'.ci = quiz.ci + 1 /\ step'.fetched # "no")
          => ~(EntryIntact(files, step'.concept) /\ step'.read_fault = "ok") ]_vars

(***************************************************************************)
(* C11. Within one run of the quiz stage each distinct concept is fetched  *)
(* from Wikipedia at most once: a pass of the concept loop that issues a   *)
(* fetch does so for a concept no fetch was issued for earlier in the run, *)
(* whether the earlier fetch failed, its cache write failed, or neither.   *)
(***************************************************************************)
C11_FetchedAtMostOnce ==
    [][ (quiz'.ci = quiz.ci + 1 /\ step'.fetched # "no")
          => step'.concept \notin fetched ]_vars

(***************************************************************************)
(* C12. When the fetch of a concept fails, the pass adds no Document and   *)
(* writes no cache entry, logs a warning, and leaves the stage inside the  *)
(* concept loop of the same question with the results so far untouched:    *)
(* the stage does not abort.                                               *)
(***************************************************************************)
C12_FetchFailureSkipsConcept ==
    [][ (quiz.pc = "concepts" /\ step' # NoStep /\ step'.fetched = "error")
          => /\ quiz'.wiki_docs = quiz.wiki_docs
             /\ files' = files
             /\ step'.warned /\ ~step'.doc /\ step'.set = "no"
             /\ quiz'.pc = "concepts"
             /\ quiz'.qi = quiz.qi /\ quiz'.ci = quiz.ci + 1
             /\ quiz'.results = quiz.results
             /\ quiz'.exc = "" ]_vars

\* A fetch has failed in the first of two questions, and the stage is still in
\* the concept loop.
C12_Witness ==
    /\ step.fetched = "error" /\ step.warned
    /\ quiz.pc = "concepts" /\ quiz.qi = 1 /\ quiz.nq = 2
    /\ quiz.wiki_docs = << >>

(***************************************************************************)
(* C13. When the document set of a question is empty (no concept, or every *)
(* fetch failed), the quiz list recorded for that question is empty.       *)
(* Stated for the questions whose processing did not raise.                *)
(***************************************************************************)
C13_EmptyDocsEmptyQuiz ==
    [][ ( /\ quiz.pc = "concepts" /\ quiz.wiki_docs = << >>
          /\ Len(quiz'.results) = Len(quiz.results) + 1 )
          => quiz'.results[Len(quiz'.results)].quiz = << >> ]_vars

(***************************************************************************)
(* Properties of the evaluation stage                                      *)
(***************************************************************************)

\* The score maps of the questions evaluated so far, and those of llm_score.
ScoreMaps ==
    { evaluation.metrics[i].score : i \in 1..Len(evaluation.metrics) }
      \cup { evaluation.llm_score[i] : i \in 1..Len(evaluation.llm_score) }

AllScores(n) == [ dim \in EVALUATION_DIMENSIONS |-> JInt(n) ]

(***************************************************************************)
(* C14. Every score map of the evaluation stage has exactly the five       *)
(* dimensions as its keys, whether it comes from the model's response,     *)
(* from the empty-quiz path or from the failure path.                      *)
(***************************************************************************)
C14_FiveDimensions ==
    \A scores \in ScoreMaps : DOMAIN scores = EVALUATION_DIMENSIONS

\* An llm_score has been written that holds a map of each of the three paths.
C14_Witness ==
    /\ evaluation.pc = "done" /\ evaluation.scored
    /\ Len(evaluation.llm_score) = 3
    /\ \E i, j, k \in 1..Len(evaluation.metrics) :
          /\ evaluation.metrics[i].calls = 0
          /\ evaluation.metrics[j].failures = MAX_RETRIES
          /\ evaluation.metrics[k].calls > evaluation.metrics[k].failures

(***************************************************************************)
(* C15. Every value of every score map is an integer in {-1, 0, 1, ..., 5},*)
(* whatever the model responds.                                            *)
(***************************************************************************)
C15_ScoresInRange ==
    \A scores \in ScoreMaps : \A dim \in DOMAIN scores :
        /\ scores[dim].type = "int"
        /\ scores[dim].v \in -1..5

(***************************************************************************)
(* C16. A question whose quiz list is empty gets the score map with all    *)
(* five dimensions 0, and the model is not called for it.                  *)
(***************************************************************************)
C16_EmptyQuizScoresZero ==
    \A i \in 1..Len(evaluation.metrics) :
        evaluation.quiz_lists[i] = << >>
          => /\ evaluation.metrics[i].score = AllScores(0)
             /\ evaluation.metrics[i].calls = 0

\* The stage has finished an area that holds a question without quizzes after
\* a question with quizzes.
C16_Witness ==
    /\ evaluation.pc = "done"
    /\ \E i \in 2..Len(evaluation.metrics) :
          /\ evaluation.quiz_lists[i] = << >>
          /\ evaluation.quiz_lists[i - 1] # << >>
          /\ evaluation.llm_score[i] = AllScores(0)

\* The outcomes of LLM.chat the claim C17 names as failures of an attempt.
FailingResponses ==
    { r \in EvalResponses :
        \/ r.raises
        \/ r.block.kind \in {"none", "malformed"}
        \/ /\ r.block.kind = "object"
           /\ ~(EVALUATION_DIMENSIONS \subseteq DOMAIN r.block.members) }

(***************************************************************************)
(* C17. Each of the failures (call error, empty response, no JSON block,   *)
(* malformed JSON, missing dimension) makes the attempt raise; a question  *)
(* whose MAX_RETRIES attempts all failed gets the map with all five        *)
(* dimensions -1 after exactly MAX_RETRIES calls of the model; and the     *)
(* step that records it goes on to the next question, or to the write      *)
(* after the last one, without raising.  (An attempt that the user         *)
(* interrupts is not a failed attempt: see C28.)                           *)
(***************************************************************************)
C17_FailureScoresMinusOne ==
    /\ [](\A r \in FailingResponses : evaluate_quiz(r).kind = "raised")
    /\ [](\A i \in 1..Len(evaluation.metrics) :
            evaluation.metrics[i].failures = MAX_RETRIES
              => /\ evaluation.metrics[i].score = AllScores(-1)
                 /\ evaluation.metrics[i].calls = MAX_RETRIES)
    /\ [][ ( /\ evaluation.pc = "questions"
             /\ evaluation.attempt = MAX_RETRIES - 1
             /\ evaluation'.error # "" /\ evaluation' # evaluation
             /\ evaluation'.exc # "KeyboardInterrupt" )
           => /\ Len(evaluation'.metrics) = Len(evaluation.metrics) + 1
              /\ evaluation'.metrics[Len(evaluation'.metrics)].failures = MAX_RETRIES
              /\ evaluation'.exc = ""
              /\ IF evaluation.qi < Len(evaluation.quiz_lists)
                   THEN /\ evaluation'.pc = "questions"
                        /\ evaluation'.qi = evaluation.qi + 1
                   ELSE evaluation'.pc = "write" ]_vars

\* The first question failed MAX_RETRIES times and got the error marker, and
\* the second question has been scored by the model since.
C17_Witness ==
    /\ Len(evaluation.metrics) >= 2
    /\ evaluation.metrics[1].failures = MAX_RETRIES
    /\ evaluation.metrics[1].score = AllScores(-1)
    /\ evaluation.metrics[2].score = AllScores(4)

(***************************************************************************)
(* Properties of the stages and of main                                    *)
(***************************************************************************)

(***************************************************************************)
(* C18. A failure of a model inference call or an invalid item (such as a  *)
(* malformed area name) never stops a stage: only a missing or unreadable  *)
(* input artifact or an unwritable output does.  Stated for the seeding    *)
(* and concept stages: whenever one of them has raised, the exception is   *)
(* that of its input or of its output.                                     *)
(***************************************************************************)
C18_OnlyArtifactFailuresStop ==
    stage.pc = "raised"
      => stage.exc \in { "FileNotFoundError", "JSONDecodeError", "OSError" }

(***************************************************************************)
(* C19. When the input artifact of a stage is missing, the failure is      *)
(* logged with a remediation hint before it is re-raised.  Stated for the  *)
(* concept stage, whose input questions.json is written by the seeding     *)
(* step: when it has raised FileNotFoundError, its log holds an error      *)
(* record.                                                                 *)
(***************************************************************************)
C19_MissingInputHinted ==
    ( /\ stage.name = "concepts"
      /\ stage.pc = "raised"
      /\ stage.exc = "FileNotFoundError" )
      => \E i \in 1..Len(stage.log) : stage.log[i].level = "error"

\* The stages selected by --step, in the order seed, concepts, quiz, eval.
SelectedStages(step_arg) ==
    SelectSeq(<< "seed", "concepts", "quiz", "eval" >>,
              LAMBDA name : step_arg = name \/ step_arg = "all")

IsPrefix(s, t) == Len(s) <= Len(t) /\ SubSeq(t, 1, Len(s)) = s

(***************************************************************************)
(* C20. main starts the selected stages, and only those, in the order      *)
(* seed, concepts, quiz, eval; a stage starts only when every stage        *)
(* started before it has completed; a stage that raises makes main return  *)
(* 1 with no further stage started; and main returns 0 exactly when every  *)
(* selected stage has completed, 1 otherwise.                              *)
(***************************************************************************)
C20_StagesInOrderAndExitCode ==
    /\ [](IsPrefix(main.started, SelectedStages(main.step)))
    /\ [](/\ IsPrefix(main.completed, main.started)
          /\ Len(main.started) <= Len(main.completed) + 1)
    /\ [](main.pc = "returned"
            => /\ main.ret \in {0, 1}
               /\ main.ret = 0 <=> main.completed = SelectedStages(main.step)
               /\ main.ret = 1 => Len(main.started) = Len(main.completed) + 1)
    /\ [][ Len(main'.started) > Len(main.started)
             => main.pc = "try" /\ main.completed = main.started ]_vars
    /\ [][ (main.pc = "stage" /\ main'.completed = main.completed /\ main' # main)
             => /\ main'.pc = "returned" /\ main'.ret = 1
                /\ main'.started = main.started ]_vars
    /\ [][ main.pc = "returned" => main' = main ]_vars

\* With --step all, seeding and concept extraction completed, the quiz stage
\* raised, and main returned 1 without starting the evaluation.
C20_Witness ==
    /\ main.pc = "returned" /\ main.ret = 1 /\ main.step = "all"
    /\ main.started = << "seed", "concepts", "quiz" >>
    /\ main.completed = << "seed", "concepts" >>

(***************************************************************************)
(* Claims about the validators                                             *)
(***************************************************************************)

\* The call of a validator has ended.
ValidateDone(fn) ==
    validation.fn = fn /\ validation.pc \in {"returned", "raised"}

\* C21: sanitise_area_name returns the raw name with underscores turned into
\* spaces, lowercased and trimmed, and raises exactly when that result holds
\* a character other than a lowercase letter, a space, a hyphen or an
\* ampersand; stated for the names whose result is not empty.
C21_OnlyLettersSpacesHyphenAmpersand ==
    LET result == strip(lower(replace(validation.arg, "_", " ")))
        bad == \E i \in 1..Len(result) :
                  result[i] \notin LowerLetters \cup {" ", "-", "&"}
    IN  (ValidateDone("sanitise_area_name") /\ result # << >>) =>
           /\ (validation.pc = "raised") <=> bad
           /\ validation.pc = "returned" => validation.ret = result

\* C22: validate_concepts returns, in order, the trimmed forms of the entries
\* that are not blank and have at most ten words, a concept of ten words being
\* kept and one of eleven dropped, and it never raises, also when nothing is
\* left.
C22_ConceptsTrimmedAndShort ==
    ValidateDone("validate_concepts") =>
      LET concepts == validation.arg
          trimmed == [ i \in 1..Len(concepts) |-> strip(concepts[i]) ]
          kept(c) == c # << >> /\ word_count(c) <= 10
      IN  /\ validation.pc = "returned"
          /\ validation.ret = SelectSeq(trimmed, kept)
          /\ \A i \in 1..Len(concepts) :
                /\ concepts[i] = TenWords =>
                     \E k \in 1..Len(validation.ret) : validation.ret[k] = TenWords
                /\ concepts[i] = LongConcept =>
                     \A k \in 1..Len(validation.ret) : validation.ret[k] # LongConcept

\* A list with a concept of ten words and one of eleven has been validated.
C22_Witness ==
    /\ ValidateDone("validate_concepts")
    /\ validation.arg = << TenWords, LongConcept >>
    /\ validation.ret = << TenWords >>

\* C23: validate_questions returns, in order, exactly the entries that are
\* neither empty nor made of whitespace only, as they were given, and it
\* returns without raising also when fewer than min_count entries are left.
C23_QuestionsNotBlank ==
    ValidateDone("validate_questions") =>
      LET questions == validation.arg
          not_blank(q) == q # << >> /\ \E i \in 1..Len(q) : q[i] \notin Whitespace
      IN  /\ validation.pc = "returned"
          /\ validation.ret = SelectSeq(questions, not_blank)
          /\ validation.warned <=> Len(validation.ret) < validation.min_count

\* A list with a padded and a blank question has been validated with fewer
\* entries left than min_count.
C23_Witness ==
    /\ ValidateDone("validate_questions")
    /\ validation.arg = << << " ", "Q", "2", "?", " " >>, << " ", "\t" >> >>
    /\ validation.ret = << << " ", "Q", "2", "?", " " >> >>
    /\ validation.min_count = 3
    /\ validation.warned

(***************************************************************************)
(* Claims about the quizzes, the index and the page fetches                *)
(***************************************************************************)

\* The text begins with 'Quiz:' and holds 'A.', 'B.', 'C.' and 'D.'.
WellFormedQuiz(t) ==
    /\ Len(t) >= 5
    /\ t[1] = "Q" /\ t[2] = "u" /\ t[3] = "i" /\ t[4] = "z" /\ t[5] = ":"
    /\ \A letter \in {"A", "B", "C", "D"} :
          \E i \in 1..(Len(t) - 1) : t[i] = letter /\ t[i + 1] = "."

\* C24: validate_quiz_format is true exactly for the texts that begin with
\* 'Quiz:' and hold 'A.', 'B.', 'C.' and 'D.'; every quiz block stored by the
\* quiz stage is such a text, and a question whose response held a malformed
\* block gets its entry all the same and the stage goes on.
C24_StoredQuizzesWellFormed ==
    /\ [](quiz.pc = "start" =>
            \A sections \in QuizResponses : \A k \in 1..Len(sections) :
               /\ validate_quiz_format(sections[k]) <=> WellFormedQuiz(sections[k])
               /\ validate_quiz_format(strip(sections[k]))
                    <=> WellFormedQuiz(strip(sections[k])))
    /\ [](\A i \in 1..Len(quiz.results) : \A k \in 1..Len(quiz.results[i].quiz) :
            WellFormedQuiz(quiz.results[i].quiz[k]))
    /\ [][(quiz.pc = "concepts" /\ step'.concept = "" /\ step'.warned) =>
            /\ Len(quiz'.results) = Len(quiz.results) + 1
            /\ quiz'.pc \in {"concepts", "write"}]_vars

\* A response with a block that lacks option D and a well-formed block has been
\* recorded: the well-formed block alone is stored.
C24_Witness ==
    /\ step.concept = "" /\ step.warned
    /\ quiz.results # << >>
    /\ quiz.results[Len(quiz.results)].quiz = << GoodBlock >>

Places(event) == { i \in 1..Len(step.order) : step.order[i] = event }

\* C26: every request for a page comes directly after one pacing delay, and a
\* concept served from the cache causes no delay, no request and no write to
\* the cache.
C26_FetchPacedHitSilent ==
    /\ [](step.fetched # "no" =>
            /\ Cardinality(Places("fetch")) = 1
            /\ Cardinality(Places("sleep")) = 1
            /\ \A i \in Places("fetch") : i > 1 /\ step.order[i - 1] = "sleep")
    /\ [](Places("fetch") # {} => step.fetched # "no")
    /\ [](step.hit =>
            /\ Places("sleep") = {} /\ Places("fetch") = {} /\ Places("set") = {}
            /\ step.fetched = "no" /\ step.set = "no")
    /\ [][(quiz.pc = "concepts" /\ step'.hit) =>
            files' = files /\ fetched' = fetched]_vars

\* A page has been requested after a miss of the cache.
C26_Witness ==
    /\ step.fetched = "ok" /\ ~step.hit
    /\ step.order[2] = "sleep" /\ step.order[3] = "fetch"

\* C27: after a page has been fetched, its content is given to the cache before
\* its Document is added to the documents of the question; when the cache
\* raises, no Document is added.
C27_CachedBeforeDocument ==
    /\ [](step.fetched = "ok" =>
            /\ Cardinality(Places("set")) = 1
            /\ step.set # "no"
            /\ \A i \in Places("set") : \A j \in Places("doc") : i < j
            /\ \A i \in Places("set") : \A j \in Places("fetch") : j < i
            /\ step.doc <=> Places("doc") # {}
            /\ step.set_raised => ~step.doc)
    /\ [][(quiz.pc = "concepts" /\ step'.fetched = "ok" /\ step'.set_raised) =>
            quiz'.wiki_docs = quiz.wiki_docs]_vars

\* A fetched page has been cached and its Document added.
C27_Witness ==
    /\ step.fetched = "ok" /\ step.doc /\ step.set = "ok"
    /\ get_cache_path(step.concept) \in DOMAIN files
    /\ step.order = << "get", "sleep", "fetch", "set", "doc" >>

(***************************************************************************)
(* Claims about the ends of retry_with_backoff and of the stages           *)
(***************************************************************************)

\* C29: for every max_retries, retry_with_backoff calls the operation at
\* least once and ends by returning its value or raising its exception; the
\* RuntimeError after the loop is never raised.
C29_TrailingRaiseUnreachable ==
    RetryDone =>
      /\ Len(Calls) >= 1
      /\ retry.result.type # "RuntimeError"
      /\ retry.result.from \in 0..(Len(Calls) - 1)

\* C28: a KeyboardInterrupt inside a stage, also inside retry_with_backoff in
\* evaluate, is never taken for a failed attempt: it is not retried and no
\* score map is recorded for it; it ends the stage, and main logs the
\* interruption as a warning and returns 1.
C28_InterruptReachesMain ==
    /\ [](evaluation.error # "KeyboardInterrupt")
    /\ [](evaluation.exc = "KeyboardInterrupt" =>
            /\ evaluation.pc = "raised"
            /\ Len(evaluation.metrics) < evaluation.qi
            /\ ~evaluation.written
            /\ main.pc \in {"stage", "returned"})
    /\ [][(evaluation'.exc = "KeyboardInterrupt" /\ evaluation.exc = "") =>
            /\ evaluation'.metrics = evaluation.metrics
            /\ evaluation'.attempt = evaluation.attempt
            /\ evaluation'.log = evaluation.log]_vars
    /\ [][evaluation.exc = "KeyboardInterrupt" => evaluation' = evaluation]_vars
    /\ [][((evaluation.exc = "KeyboardInterrupt" \/ main'.exc = "KeyboardInterrupt")
            /\ main' # main) =>
            /\ main.pc = "stage"
            /\ main'.pc = "returned" /\ main'.ret = 1
            /\ main'.exc = "KeyboardInterrupt"
            /\ main'.completed = main.completed
            /\ main'.log = Append(main.log,
                 LogRecord("warning", "Pipeline interrupted by user"))]_vars

\* The second attempt for a question was interrupted, and main has returned 1.
C28_Witness ==
    /\ evaluation.exc = "KeyboardInterrupt"
    /\ evaluation.attempt = 1 /\ evaluation.calls = 2
    /\ main.pc = "returned" /\ main.ret = 1
    /\ main.started[Len(main.started)] = "eval"

\* C30: after a run of the whole pipeline that returns 0, the concepts, quiz,
\* summary, wiki and llm_score lists of the area have one entry per question,
\* made for the questions in their order, and the questions of concepts.json,
\* quiz_concept_wiki.json and wiki_evaluation.json are those of questions.json.
C30_ListsAligned ==
    artifacts.ret = 0 =>
      LET questions == artifacts.questions
          aligned(list) ==
            /\ Len(list) = Len(questions)
            /\ \A i \in 1..Len(list) : list[i].for = questions[i]
      IN  /\ aligned(artifacts.concepts)
          /\ aligned(artifacts.quiz)
          /\ aligned(artifacts.summary)
          /\ aligned(artifacts.wiki)
          /\ aligned(artifacts.llm_score)
          /\ artifacts.carried = << questions, questions, questions >>

\* A run over three questions has returned 0; the second question got no valid
\* concept and the third no quiz.
C30_Witness ==
    /\ artifacts.ret = 0
    /\ Len(artifacts.questions) = 3
    /\ artifacts.concepts[2].value = << >>
    /\ artifacts.quiz[3].value = << >>
    /\ artifacts.llm_score[3].value = create_score_dict(0)
    /\ artifacts.llm_score[1].value = create_score_dict(-1)

(***************************************************************************)
(* Claims about what a failure leaves behind                               *)
(***************************************************************************)

\* C32: a set(t, c, id) that fails leaves the entry stored for t as it was: a
\* get(t) after it returns what a get(t) before it returned.
C32_FailedSetKeepsEntry ==
    [][(call'.op = "set" /\ call'.warned) =>
         GetReturns(files', call'.concept) = GetReturns(files, call'.concept)]_vars

\* The stage at a.pc is in a pass of its loops (not at its write).
Processing(a) ==
    \/ a.pc = "seed"
    \/ a.pc = "concepts" /\ a.i <= Len(a.questions)
    \/ a.pc = "quiz" /\ a.i <= zip_len(a.carried[1], a.concepts)
    \/ a.pc = "eval" /\ a.i <= zip_len(a.carried[2],
                                 SubSeq(a.quiz, 1, zip_len(a.quiz, a.summary)))

\* The artifacts a stage writes, and those written by the stages before it.
Outputs(name) ==
    CASE name = "seed" -> { "questions.json" }
      [] name = "concepts" -> { "concepts.json" }
      [] name = "quiz" -> { "quiz_concept_wiki.json", "wiki.json" }
      [] name = "eval" -> { "wiki_evaluation.json" }
      [] OTHER -> { }
Earlier(name) ==
    CASE name = "concepts" -> Outputs("seed")
      [] name = "quiz" -> Outputs("seed") \cup Outputs("concepts")
      [] name = "eval" -> Outputs("seed") \cup Outputs("concepts") \cup Outputs("quiz")
      [] OTHER -> { }

\* C31: a stage writes its artifact only after all its items: no pass of a
\* loop changes an artifact, so a stage that fails or is interrupted in a pass
\* leaves its own artifact as it was before the run and the artifacts of the
\* earlier stages as they wrote them, while the cache entries and the index
\* written before the failure remain.
C31_ArtifactsWrittenAtEnd ==
    /\ [][Processing(artifacts) =>
            /\ artifacts'.disk = artifacts.disk
            /\ artifacts.cache \subseteq artifacts'.cache
            /\ artifacts.index => artifacts'.index]_vars
    /\ [](Processing(artifacts) =>
            /\ \A n \in Outputs(artifacts.pc) :
                  artifacts.disk[n].state \in {"absent", "old"}
            /\ \A n \in Earlier(artifacts.pc) :
                  artifacts.disk[n].state = "written")
    /\ []((artifacts.ret = 1 /\ Processing([ artifacts EXCEPT !.pc = artifacts.failed ])) =>
            /\ \A n \in Outputs(artifacts.failed) :
                  artifacts.disk[n].state \in {"absent", "old"}
            /\ \A n \in Earlier(artifacts.failed) :
                  artifacts.disk[n].state = "written")

\* The quiz stage has failed in the pass for the second question: its two
\* artifacts are absent, concepts.json is as written, and the page cached and
\* the index persisted before the failure are there.
C31_Witness ==
    /\ artifacts.ret = 1 /\ artifacts.failed = "quiz" /\ artifacts.i = 2
    /\ Len(artifacts.quiz) = 1
    /\ artifacts.disk["quiz_concept_wiki.json"] = AbsentFile
    /\ artifacts.disk["wiki.json"] = AbsentFile
    /\ artifacts.disk["concepts.json"].state = "written"
    /\ artifacts.cache = { "Thermal energy" }
    /\ artifacts.index

====
